---- MODULE Spec2Model ----
(***************************************************************************)
(* Capture-side concurrency and buffering infrastructure of FCameraPro:    *)
(* WorkQueue<T> (WorkQueue.h), TSTripleBuffer<T> / TripleBuffer<T>         *)
(* (TripleBuffer.h) and AsyncImageWriter / ImageSet (AsyncImageWriter.cpp).*)
(*                                                                         *)
(* A class is modelled by operators over a record of its members, an       *)
(* instance of the class by a variable holding such a record.  A region    *)
(* between pthread_mutex_lock and pthread_mutex_unlock of one mutex is one *)
(* step (the mutex serialises these regions); semaphore operations taken   *)
(* outside the mutex are steps of their own.                               *)
(***************************************************************************)
EXTENDS Integers, Sequences, FiniteSets, TLC

VARIABLES
    \* ---- a WorkQueue<T> instance with its producers and its one consumer
    wq,          \* the WorkQueue object: [m_queue, m_counterSem]
    cpc,         \* consumer thread: "idle" | "sem_wait" | "cs" | "undefined"
    elem,        \* consumer's output argument of consume()
    sink,        \* consumer's output argument of consumeAll()
    ret,         \* what the consumer's last call returned
    ub,          \* TRUE once front()/pop() ran on an empty std::queue
    produced,    \* history: items in the order produce() appended them
    delivered,   \* history: what each consume / consumeAll handed over
    overlap,     \* history: consumeAll calls that ran inside a consume call
    \* ---- a TSTripleBuffer and a TripleBuffer driven by the same calls
    tsbuf,       \* TSTripleBuffer object
    tbuf,        \* TripleBuffer object
    ts_rval,     \* last value returned by the TSTripleBuffer
    tb_rval,     \* last value returned by the TripleBuffer
    content,     \* content[b]: number of the fill buffer b holds (0: none)
    nfills,      \* fills completed by the producer so far
    ppc,         \* producer: "fill" | "swap"
    published,   \* number of the fill handed over by the last swapBackBuffer
    sinceFront,  \* swapBackBuffer calls since the last swapFrontBuffer
    lastN,       \* sinceFront as the last swapFrontBuffer found it
    shown,       \* number of the fill the last swapFrontBuffer returned
    held,        \* consumer's pointer: the buffer its last swapFrontBuffer
                 \* returned ("none" before the first call)
    \* ---- an AsyncImageWriter with its client thread and its worker thread
    m_queue,     \* AsyncImageWriter::m_queue, a WorkQueue<ImageSet *>
    sFreeId,     \* AsyncImageWriter::sFreeId
    heap,        \* heap[p]: the p-th ImageSet object allocated
    nalloc,      \* ImageSets allocated so far
    cur,         \* the client's ImageSet not pushed yet (NULL: none)
    wpc,         \* worker: "loop" | "sem_wait" | "cs" | "got" | "dump_img" | "exit"
    imageset,    \* worker's local ImageSet pointer
    wi,          \* worker's frame index inside dumpToFileSystem
    fs,          \* storage: set of files present
    wlog,        \* history: the worker's writes, callbacks and deletes (a
                 \* deleted ImageSet stays in heap for the histories)
    pushed,      \* history: ImageSet pointers in the order push() queued them
    dtor,        \* ~AsyncImageWriter: "none" | "join" | "done"
    \* ---- the dispatch thread (FCamAppThread), the UI thread and the Java side
    requestQueue,   \* sAppData->requestQueue, a WorkQueue<ParamSetRequest>
    taskQueue,      \* FCamAppThread's local std::queue<ParamSetRequest>
    dpc,            \* FCamAppThread: "drain" | "tasks" | "discard" | "capture" |
                    \* "preview" | "getFrame" | "publish" | "publishing" |
                    \* "snapshot" | "memcpy" | "memcpy_rest"
    writer,         \* FCamAppThread's AsyncImageWriter pointer (NULL: none yet)
    m_outputDirPrefix, \* writer->m_outputDirPrefix, a sequence of characters
    m_sensor,       \* camera->m_sensor: [streaming, queue of shots pending]
    m_currentState, \* camera->m_currentState
    previousState,  \* tdata->previousState
    isViewerActive, \* tdata->isViewerActive
    shot,           \* FCamAppThread's preview shot
    cycled,         \* history: a preview cycle ran since the last request
                    \* was dispatched
    jni,            \* history: the calls made on the Java FCamInterface object
    submitted,      \* history: requests in the order produce() queued them
    applied,        \* history: requests in the order the switch dispatched them
    touchAction,    \* FCamAppThread's local touchAction
    touchX,         \* FCamAppThread's local touchX
    touchY,         \* FCamAppThread's local touchY
    touched,        \* history: the deferred touch actions the preview cycles
                    \* applied, in order
    batch,          \* history: how many requests had been dispatched when
                    \* the iteration under way called consumeAll
    m_currentMode,  \* camera->m_currentMode
    \* ---- one call of DownsampleChannel
    src,         \* source plane, src[k] for k in 0..srcWidth*srcHeight-1
    srcWidth,    \* source width in pixels
    srcHeight,   \* source height in pixels
    dest,        \* destination plane, dest[k] for k in 0..dstWidth*dstHeight-1
    dstWidth,    \* destination width in pixels
    dstHeight,   \* destination height in pixels
    thpc,        \* the caller: "call" | "done"
    oob,         \* TRUE once src was read outside srcWidth*srcHeight bytes
    \* ---- the locks and flags of sAppData and the thread polling them
    previousStateLock,    \* sAppData->previousStateLock: "free" or its holder
    renderingThreadLock,  \* sAppData->renderingThreadLock: "free" or its holder
    isCapturing,          \* sAppData->isCapturing
    previewBuffer,        \* sAppData->previewBuffer: <<>> for the null pointer,
                          \* else <<b>> for a pointer to PreviewBuffer b
    previewBufferTexId,   \* sAppData->previewBufferTexId
    upc,                  \* polling thread: "idle" or the call it is inside
    uarg,                 \* the arguments of that call
    uobs,                 \* what that call has read so far
    urval                 \* history: what the calls returned, in order

wqvars  == <<wq, cpc, elem, sink, ret, ub, produced, delivered, overlap>>
tbvars  == <<tsbuf, tbuf, ts_rval, tb_rval, content, nfills, ppc, published,
             sinceFront, lastN, shown, held>>
aiwvars == <<m_queue, sFreeId, heap, nalloc, cur, wpc, imageset, wi, fs, wlog,
             pushed, dtor>>
appvars == <<requestQueue, taskQueue, dpc, writer, m_outputDirPrefix, m_sensor, m_currentState,
             previousState, isViewerActive, shot, cycled, jni, submitted,
             applied, touchAction, touchX, touchY, touched, batch, m_currentMode>>
thvars  == <<src, srcWidth, srcHeight, dest, dstWidth, dstHeight, thpc, oob>>
pollvars == <<upc, uarg, uobs, urval>>
lkvars  == <<previousStateLock, renderingThreadLock, isCapturing, previewBuffer,
             previewBufferTexId, pollvars>>
vars    == <<wqvars, tbvars, aiwvars, appvars, thvars, lkvars>>

\* ------------------------------------------------------------------ bounds
MaxProduced == 3
MaxFills    == 4
MaxSets     == 2
MaxFrames   == 3
MaxFileId   == 1
MaxRequests == 3
MaxPreviewRequests == 3
MaxExposureRequests == 4
MaxSrcSide == 6
MaxInFlight == 1
MaxCommands == 2
MaxBurstRequests == 4
MaxPollRequests == 3
MaxLockRequests == 3
MaxPolls == 1
MaxDstSide == 2
MaxOverlaps == 1
MaxTouchRequests == 3
MaxCameraRequests == 2
MaxViewerCalls == 2
MaxShotRequests == 3
MaxShotReads == 1

Producers == {"p1", "p2"}
Values    == {"a", "b"}
\* A queued item: the value and the thread that produced it.
Items     == [by : Producers, val : Values]

NULL == 0

\* Concatenation of a sequence of sequences.
RECURSIVE Flatten(_)
Flatten(ss) == IF ss = <<>> THEN <<>> ELSE Head(ss) \o Flatten(Tail(ss))

Last(s) == s[Len(s)]

\* ================================================================ WorkQueue
\* WorkQueue::WorkQueue: an empty std::queue, sem_init( &m_counterSem, 0, 0 ).
WorkQueue == [m_queue |-> <<>>, m_counterSem |-> 0]

\* WorkQueue::produce: m_queue.push( elem ); sem_post( &m_counterSem ), both
\* under m_lock.
produce(q, e) ==
    [m_queue |-> Append(q.m_queue, e), m_counterSem |-> q.m_counterSem + 1]

\* sem_wait / sem_trywait can take the semaphore.
sem_available(q) == q.m_counterSem > 0

\* sem_wait, or a successful sem_trywait: the count goes down by one.
sem_take(q) == [q EXCEPT !.m_counterSem = @ - 1]

\* consume_cs taking the newest element instead of the oldest.
consume_cs_lifo(q, garbage) ==
    IF q.m_queue # <<>>
    THEN [q |-> [q EXCEPT !.m_queue = SubSeq(@, 1, Len(@) - 1)],
          elem |-> q.m_queue[Len(q.m_queue)], undef |-> FALSE]
    ELSE [q |-> q, elem |-> garbage, undef |-> TRUE]

\* WorkQueue::consume, critical section: elem = m_queue.front(); m_queue.pop().
\* On an empty std::queue both calls are undefined: the caller gets some
\* value (garbage) and the object is flagged through undef.
consume_cs(q, garbage) ==
    IF q.m_queue # <<>>
    THEN [q |-> [q EXCEPT !.m_queue = Tail(@)], elem |-> Head(q.m_queue),
          undef |-> FALSE]
    ELSE [q |-> q, elem |-> garbage, undef |-> TRUE]

\* consumeAll that copies the queue and does not empty it.
consumeAll_noclear(q) == [q |-> q, queue |-> q.m_queue]

\* consumeAll that empties the queue and leaves the semaphore as it is.
consumeAll_nosemreset(q) ==
    [q |-> [q EXCEPT !.m_queue = <<>>], queue |-> q.m_queue]

\* WorkQueue::consumeAll: queue = m_queue; a non-empty m_queue is replaced by
\* an empty one and the semaphore is destroyed and initialised to 0 again.
consumeAll(q) ==
    [q     |-> IF q.m_queue # <<>>
               THEN [m_queue |-> <<>>, m_counterSem |-> 0]
               ELSE q,
     queue |-> q.m_queue]

\* ---- the threads around one WorkQueue instance (wq)

\* A producer thread t calls wq.produce( e ).
Produce(t, v) ==
    /\ Len(produced) < MaxProduced
    /\ wq' = produce(wq, [by |-> t, val |-> v])
    /\ produced' = Append(produced, [by |-> t, val |-> v])
    /\ UNCHANGED <<overlap, cpc, elem, sink, ret, ub, delivered, tbvars, thvars, lkvars, aiwvars, appvars>>

\* The consumer calls consume( elem, true ) and reaches sem_wait.
ConsumeBlocking ==
    /\ cpc = "idle"
    /\ cpc' = "sem_wait"
    /\ ret' = [op |-> "consume", val |-> "pending"]
    /\ UNCHANGED <<overlap, wq, elem, sink, ub, produced, delivered, tbvars, thvars, lkvars, aiwvars,
                   appvars>>

\* sem_wait returns: only when the count is positive.
SemWait ==
    /\ cpc = "sem_wait"
    /\ sem_available(wq)
    /\ wq' = sem_take(wq)
    /\ cpc' = "cs"
    /\ UNCHANGED <<overlap, elem, sink, ret, ub, produced, delivered, tbvars, thvars, lkvars, aiwvars,
                   appvars>>

\* The consumer calls consume( elem, false ): sem_trywait either fails, and
\* the call returns false, or takes the semaphore.
ConsumeNonBlocking ==
    /\ cpc = "idle"
    /\ IF sem_available(wq)
       THEN /\ wq' = sem_take(wq)
            /\ cpc' = "cs"
            /\ ret' = [op |-> "trywait", val |-> "pending"]
       ELSE /\ ret' = [op |-> "trywait", val |-> "false"]
            /\ UNCHANGED <<wq, cpc>>
    /\ UNCHANGED <<overlap, elem, sink, ub, produced, delivered, tbvars, thvars, lkvars, aiwvars, appvars>>

\* The critical section of consume, then return true.  What the consumer
\* does once front() and pop() have run on an empty std::queue is undefined
\* and is not followed further.
ConsumeCS ==
    /\ cpc = "cs"
    /\ \E g \in Items :
          LET r == consume_cs(wq, g) IN
          /\ wq' = r.q
          /\ elem' = r.elem
          /\ ub' = (ub \/ r.undef)
          /\ delivered' = Append(delivered, [op |-> "consume", items |-> <<r.elem>>])
          /\ cpc' = IF r.undef THEN "undefined" ELSE "idle"
    /\ ret' = [op |-> ret.op, val |-> "true"]
    /\ UNCHANGED <<overlap, sink, produced, tbvars, thvars, lkvars, aiwvars, appvars>>

\* The consumer calls consumeAll( queue ).  The history records the batches
\* that hold something.
ConsumeAll ==
    /\ cpc = "idle"
    /\ LET r == consumeAll(wq) IN
          /\ wq' = r.q
          /\ sink' = r.queue
          /\ delivered' = IF r.queue = <<>> THEN delivered
                          ELSE Append(delivered, [op |-> "consumeAll", items |-> r.queue])
    /\ ret' = [op |-> "consumeAll", val |-> "void"]
    /\ UNCHANGED <<overlap, cpc, elem, ub, produced, tbvars, thvars, lkvars, aiwvars, appvars>>

\* A second thread calls consumeAll( queue ) while the consumer is inside
\* consume: the critical section runs whenever m_lock is free, and the
\* consumer holds m_lock inside none of the model's states.  (A call made
\* while the consumer is outside consume acts on the queue as ConsumeAll.)
ConsumeAllConcurrent ==
    /\ cpc \in {"sem_wait", "cs"}
    /\ overlap < MaxOverlaps
    /\ LET r == consumeAll(wq) IN
          /\ wq' = r.q
          /\ delivered' = IF r.queue = <<>> THEN delivered
                          ELSE Append(delivered, [op |-> "consumeAll", items |-> r.queue])
    /\ overlap' = overlap + 1
    /\ UNCHANGED <<cpc, elem, sink, ret, ub, produced, tbvars, thvars, lkvars, aiwvars,
                   appvars>>

\* ============================================================= TripleBuffer
Buffers == {"b0", "b1", "b2"}

\* The arrays T * buffers[3] of three distinct buffers.
BufferArrays ==
    {a \in [1..3 -> Buffers] : \A i, j \in 1..3 : a[i] = a[j] => i = j}

\* TSTripleBuffer::TSTripleBuffer( T * buffers[3] ).
TSTripleBuffer(buffers) ==
    [m_frontBuffer |-> buffers[1], m_backBuffer |-> buffers[2],
     m_spareBuffer |-> buffers[3], m_updateFrontBuffer |-> FALSE]

\* TSTripleBuffer::getFrontBuffer.
TS_getFrontBuffer(b) == [b |-> b, rval |-> b.m_frontBuffer]

\* swapFrontBuffer that promotes the spare buffer and forgets to move the
\* old front buffer to the spare role.
TS_swapFrontBuffer_alias(b) ==
    IF b.m_updateFrontBuffer
    THEN [b    |-> [b EXCEPT !.m_frontBuffer = b.m_spareBuffer,
                             !.m_updateFrontBuffer = FALSE],
          rval |-> b.m_spareBuffer]
    ELSE [b |-> b, rval |-> b.m_frontBuffer]

\* TSTripleBuffer::swapFrontBuffer.
TS_swapFrontBuffer(b) ==
    IF b.m_updateFrontBuffer
    THEN [b    |-> [b EXCEPT !.m_spareBuffer = b.m_frontBuffer,
                             !.m_frontBuffer = b.m_spareBuffer,
                             !.m_updateFrontBuffer = FALSE],
          rval |-> b.m_spareBuffer]
    ELSE [b |-> b, rval |-> b.m_frontBuffer]

\* TSTripleBuffer::getBackBuffer.
TS_getBackBuffer(b) == [b |-> b, rval |-> b.m_backBuffer]

\* swapBackBuffer that exchanges back and front instead of back and spare.
TS_swapBackBuffer_front(b) ==
    [b    |-> [b EXCEPT !.m_frontBuffer = b.m_backBuffer,
                        !.m_backBuffer = b.m_frontBuffer,
                        !.m_updateFrontBuffer = TRUE],
     rval |-> b.m_frontBuffer]

\* TSTripleBuffer::swapBackBuffer.
TS_swapBackBuffer(b) ==
    [b    |-> [b EXCEPT !.m_spareBuffer = b.m_backBuffer,
                        !.m_backBuffer = b.m_spareBuffer,
                        !.m_updateFrontBuffer = TRUE],
     rval |-> b.m_spareBuffer]

\* TripleBuffer::TripleBuffer( T * buffers[3] ).
TripleBuffer(buffers) ==
    [m_frontBuffer |-> buffers[1], m_backBuffer |-> buffers[2],
     m_spareBuffer |-> buffers[3], m_updateFrontBuffer |-> FALSE]

\* PreviewBuffer::PreviewBuffer, on top of the protected TripleBuffer( void ):
\* back, front and spare are m_viewBuffers[0], [1] and [2].
PreviewBuffer(m_viewBuffers) ==
    [m_frontBuffer |-> m_viewBuffers[2], m_backBuffer |-> m_viewBuffers[1],
     m_spareBuffer |-> m_viewBuffers[3], m_updateFrontBuffer |-> FALSE]

\* TripleBuffer::getFrontBuffer.
TB_getFrontBuffer(b) == [b |-> b, rval |-> b.m_frontBuffer]

\* swapFrontBuffer that leaves the update-pending flag set.
TB_swapFrontBuffer_keepflag(b) ==
    IF b.m_updateFrontBuffer
    THEN [b    |-> [b EXCEPT !.m_spareBuffer = b.m_frontBuffer,
                             !.m_frontBuffer = b.m_spareBuffer],
          rval |-> b.m_spareBuffer]
    ELSE [b |-> b, rval |-> b.m_frontBuffer]

\* TripleBuffer::swapFrontBuffer.
TB_swapFrontBuffer(b) ==
    IF b.m_updateFrontBuffer
    THEN LET rval == b.m_spareBuffer IN
         [b    |-> [m_frontBuffer |-> rval, m_backBuffer |-> b.m_backBuffer,
                    m_spareBuffer |-> b.m_frontBuffer,
                    m_updateFrontBuffer |-> FALSE],
          rval |-> rval]
    ELSE [b |-> b, rval |-> b.m_frontBuffer]

\* TripleBuffer::getBackBuffer.
TB_getBackBuffer(b) == [b |-> b, rval |-> b.m_backBuffer]

\* swapBackBuffer that does not mark the front buffer for update.
TB_swapBackBuffer_noflag(b) ==
    [b    |-> [b EXCEPT !.m_spareBuffer = b.m_backBuffer,
                        !.m_backBuffer = b.m_spareBuffer],
     rval |-> b.m_spareBuffer]

\* TripleBuffer::swapBackBuffer.
TB_swapBackBuffer(b) ==
    LET rval == b.m_spareBuffer IN
    [b    |-> [m_frontBuffer |-> b.m_frontBuffer, m_backBuffer |-> rval,
               m_spareBuffer |-> b.m_backBuffer, m_updateFrontBuffer |-> TRUE],
     rval |-> rval]

\* ---- a producer and a consumer around the two buffers; every call is made
\* on both objects.

\* The producer asks for the back buffer and fills it (FCamAppThread:
\* getBackBuffer, lock, memcpy, unlock).
Fill ==
    /\ ppc = "fill"
    /\ nfills < MaxFills
    /\ LET s == TS_getBackBuffer(tsbuf)
           t == TB_getBackBuffer(tbuf) IN
          /\ tsbuf' = s.b
          /\ tbuf' = t.b
          /\ ts_rval' = [op |-> "getBackBuffer", buf |-> s.rval]
          /\ tb_rval' = [op |-> "getBackBuffer", buf |-> t.rval]
          /\ content' = [content EXCEPT ![s.rval] = nfills + 1]
    /\ nfills' = nfills + 1
    /\ ppc' = "swap"
    /\ UNCHANGED <<published, sinceFront, lastN, shown, held, wqvars, thvars, lkvars, aiwvars, appvars>>

\* The producer hands the filled buffer over.
SwapBack ==
    /\ ppc = "swap"
    /\ LET s == TS_swapBackBuffer(tsbuf)
           t == TB_swapBackBuffer(tbuf) IN
          /\ tsbuf' = s.b
          /\ tbuf' = t.b
          /\ ts_rval' = [op |-> "swapBackBuffer", buf |-> s.rval]
          /\ tb_rval' = [op |-> "swapBackBuffer", buf |-> t.rval]
    /\ published' = nfills
    /\ sinceFront' = sinceFront + 1
    /\ ppc' = "fill"
    /\ UNCHANGED <<content, nfills, lastN, shown, held, wqvars, thvars, lkvars, aiwvars, appvars>>

\* The consumer asks for the newest front buffer.
SwapFront ==
    /\ LET s == TS_swapFrontBuffer(tsbuf)
           t == TB_swapFrontBuffer(tbuf) IN
          /\ tsbuf' = s.b
          /\ tbuf' = t.b
          /\ ts_rval' = [op |-> "swapFrontBuffer", buf |-> s.rval]
          /\ tb_rval' = [op |-> "swapFrontBuffer", buf |-> t.rval]
          /\ shown' = content[s.rval]
          /\ held' = s.rval
    /\ lastN' = sinceFront
    /\ sinceFront' = 0
    /\ UNCHANGED <<content, nfills, ppc, published, wqvars, thvars, lkvars, aiwvars, appvars>>

\* The consumer asks for the current front buffer.
GetFront ==
    /\ LET s == TS_getFrontBuffer(tsbuf)
           t == TB_getFrontBuffer(tbuf) IN
          /\ tsbuf' = s.b
          /\ tbuf' = t.b
          /\ ts_rval' = [op |-> "getFrontBuffer", buf |-> s.rval]
          /\ tb_rval' = [op |-> "getFrontBuffer", buf |-> t.rval]
    /\ UNCHANGED <<content, nfills, ppc, published, sinceFront, lastN, shown, held,
                   wqvars, thvars, lkvars, aiwvars, appvars>>

\* ========================================================= AsyncImageWriter
\* FileFormatDescriptor::EFormats.
EFormats == {"EFormatJPEG", "EFormatTIFF", "EFormatDNG", "EFormatRAW"}

\* File names: the sprintf patterns sXmlName, sImageName and sThumbnailName
\* with their arguments (decimal formatting is one-to-one on the arguments).
XmlName(id) == [pattern |-> "img_%04i.xml", id |-> id]
ImageName(id, i, ext) ==
    [pattern |-> "img_%04i_%02i.%s", id |-> id, i |-> i, ext |-> ext]
ThumbnailName(id, i) == [pattern |-> "thumb_%04i_%02i.jpg", id |-> id, i |-> i]
sJpegExt == "jpg"

\* ImageSet::ImageSet( id, outputDirPrefix ): no frame yet.
ImageSet(id) == [m_fileId |-> id, m_frames |-> <<>>, m_frameFormat |-> <<>>]

\* ImageSet::add.
add(is, ff, frame) ==
    [is EXCEPT !.m_frames = Append(@, frame), !.m_frameFormat = Append(@, ff)]

\* dumpToFileSystem, first loop: the number of valid frames.
icount(is) ==
    Cardinality({k \in 1..Len(is.m_frames) : is.m_frames[k].valid})

\* <image> records numbered by their rank among the valid frames.
ImageRecords_rank(is, i) ==
    [j \in 1..icount(is) |->
        [name      |-> ImageName(is.m_fileId, j - 1, sJpegExt),
         thumbnail |-> ThumbnailName(is.m_fileId, j - 1)]]

\* dumpToFileSystem, second loop: the <image> records of frames i, i+1, ...
\* (i counts from 0 as in the source; m_frames[i] is is.m_frames[i + 1]).
RECURSIVE ImageRecords(_, _)
ImageRecords(is, i) ==
    IF i >= Len(is.m_frames) THEN <<>>
    ELSE (IF is.m_frames[i + 1].valid
          THEN <<[name      |-> ImageName(is.m_fileId, i, sJpegExt),
                  thumbnail |-> ThumbnailName(is.m_fileId, i)]>>
          ELSE <<>>) \o ImageRecords(is, i + 1)

\* The descriptor file dumpToFileSystem writes: <imagestack imagecount=...>
\* and its <image> records (the per-frame flash, gain, exposure, wb and focus
\* attributes are copies of the frame's tags and are left out).
Descriptor(is) == [imagecount |-> icount(is), images |-> ImageRecords(is, 0)]

\* dumpToFileSystem without the icount == 0 return.
DumpDescriptor_always(p, is) ==
    << [ev |-> "xml", set |-> p, name |-> XmlName(is.m_fileId),
        doc |-> Descriptor(is)],
       [ev |-> "callback", set |-> p] >>

\* dumpToFileSystem up to the first callback: nothing for a set without a
\* valid frame, else the descriptor file and onFileSystemChange().
DumpDescriptor(p, is) ==
    IF icount(is) = 0 THEN <<>>
    ELSE << [ev |-> "xml", set |-> p, name |-> XmlName(is.m_fileId),
             doc |-> Descriptor(is)],
            [ev |-> "callback", set |-> p] >>

\* Third loop that calls back for every frame, valid or not.
DumpFrame_callback(p, is, i) ==
    (IF is.m_frames[i + 1].valid
     THEN <<[ev |-> "image", set |-> p,
             name |-> ImageName(is.m_fileId, i, sJpegExt)],
            [ev |-> "thumbnail", set |-> p,
             name |-> ThumbnailName(is.m_fileId, i)]>>
     ELSE <<>>) \o <<[ev |-> "callback", set |-> p]>>

\* dumpToFileSystem, third loop, frame i: for a valid frame the image (only
\* case EFormatJPEG of the switch writes one), the thumbnail and
\* onFileSystemChange().
DumpFrame(p, is, i) ==
    IF is.m_frames[i + 1].valid
    THEN (IF is.m_frameFormat[i + 1] = "EFormatJPEG"
          THEN <<[ev |-> "image", set |-> p,
                  name |-> ImageName(is.m_fileId, i, sJpegExt)]>>
          ELSE <<>>)
         \o << [ev |-> "thumbnail", set |-> p,
                name |-> ThumbnailName(is.m_fileId, i)],
               [ev |-> "callback", set |-> p] >>
    ELSE <<>>

\* The files a sequence of write events leaves on storage.
FilesOf(events) ==
    {events[k].name : k \in {j \in 1..Len(events) :
                               events[j].ev \in {"xml", "image", "thumbnail"}}}

\* AsyncImageWriter::newImageSet, the for( ;; ) loop: the first id from
\* sFreeId on whose descriptor cannot be opened.
RECURSIVE FirstFreeId(_, _)
FirstFreeId(id, files) ==
    IF XmlName(id) \in files THEN FirstFreeId(id + 1, files) ELSE id

\* newImageSet without the scan of the storage.
newImageSet_noscan(freeId, files) ==
    [is |-> ImageSet(freeId), sFreeId |-> freeId + 1]

\* AsyncImageWriter::newImageSet: new ImageSet( sFreeId++, ... ) after the loop.
newImageSet(freeId, files) ==
    LET id == FirstFreeId(freeId, files) IN
    [is |-> ImageSet(id), sFreeId |-> id + 1]

\* ---- requests and the writer's callback
\* ParamSetRequest( param, data, dataSize ): the id and a copy of the data.
ParamSetRequest(param, data) == [m_id |-> param, m_data |-> data]

\* A request with an array of floats: the picture id rides in the high 16
\* bits of the id ( param >> 16 ), the id proper in the low 16
\* ( param & 0xffff ).
ArrayRequest(paramId, pictureId, values) ==
    [m_id |-> paramId, m_pictureId |-> pictureId, m_data |-> values]

\* A PARAM_SHOT request: the data are the five floats exposure, focus, gain,
\* wb, flash in SHOT_PARAM_* order.
ShotRequest(pictureId, values) == ArrayRequest("PARAM_SHOT", pictureId, values)

\* A callback that queues its request twice.
OnFileSystemChanged_twice(q) ==
    produce(produce(q, ParamSetRequest("PARAM_PRIV_FS_CHANGED", 1)),
            ParamSetRequest("PARAM_PRIV_FS_CHANGED", 1))

\* OnFileSystemChanged, the callback FCamAppThread registers on its writer
\* right after creating it: queues PARAM_PRIV_FS_CHANGED with value 1.
OnFileSystemChanged(q) == produce(q, ParamSetRequest("PARAM_PRIV_FS_CHANGED", 1))

\* The requests the callbacks among the events queue.
CallbackRequests(events) ==
    [k \in 1..Len(SelectSeq(events, LAMBDA x : x.ev = "callback")) |->
        ParamSetRequest("PARAM_PRIV_FS_CHANGED", 1)]

\* The request queue after the callbacks among the events.
RECURSIVE AfterCallbacks(_, _)
AfterCallbacks(q, events) ==
    IF events = <<>> THEN q
    ELSE AfterCallbacks(IF Head(events).ev = "callback"
                        THEN OnFileSystemChanged(q) ELSE q, Tail(events))

\* push that queues whatever pointer it is given.
push_any(q, is) == produce(q, is)

\* AsyncImageWriter::push: if ( is != 0 ) m_queue.produce( is ).
push(q, is) == IF is # NULL THEN produce(q, is) ELSE q

\* ---- the client thread (Camera::capture on the dispatch thread)

\* Frames added to the ImageSets hs so far.
RECURSIVE TotalFrames(_)
TotalFrames(hs) ==
    IF hs = <<>> THEN 0 ELSE Len(Head(hs).m_frames) + TotalFrames(Tail(hs))

\* AsyncImageWriter::SetFreeFileId( id ) (PARAM_OUTPUT_FILE_ID), between two
\* captures.
SetFreeFileId(id) ==
    /\ cur = NULL
    /\ nalloc < MaxSets
    /\ sFreeId' = id
    /\ UNCHANGED <<m_queue, heap, nalloc, cur, wpc, imageset, wi, fs, wlog,
                   pushed, dtor, wqvars, thvars, lkvars, tbvars, appvars>>

\* Camera::capture: ImageSet * is = writer->newImageSet().
NewImageSet ==
    /\ cur = NULL
    /\ dtor = "none"
    /\ nalloc < MaxSets
    /\ LET r == newImageSet(sFreeId, fs) IN
          /\ heap' = Append(heap, r.is)
          /\ sFreeId' = r.sFreeId
    /\ nalloc' = nalloc + 1
    /\ cur' = nalloc + 1
    /\ UNCHANGED <<m_queue, wpc, imageset, wi, fs, wlog, pushed, dtor, wqvars, thvars, lkvars,
                   tbvars, appvars>>

\* Camera::capture: is->add( fmt, m_sensor->getFrame() ) with
\* fmt( EFormatJPEG, 95 ); the frame the sensor returns is valid or not.
\* MaxFrames bounds the frames the sensor returns over the whole run.
Add(valid) ==
    /\ cur # NULL
    /\ TotalFrames(heap) < MaxFrames
    /\ heap' = [heap EXCEPT ![cur] = add(@, "EFormatJPEG", [valid |-> valid])]
    /\ UNCHANGED <<m_queue, sFreeId, nalloc, cur, wpc, imageset, wi, fs, wlog,
                   pushed, dtor, wqvars, thvars, lkvars, tbvars, appvars>>

\* Camera::capture: writer->push( is ).
Push ==
    /\ cur # NULL
    /\ dtor = "none"
    /\ m_queue' = push(m_queue, cur)
    /\ pushed' = Append(pushed, cur)
    /\ cur' = NULL
    /\ UNCHANGED <<sFreeId, heap, nalloc, wpc, imageset, wi, fs, wlog, dtor,
                   wqvars, thvars, lkvars, tbvars, appvars>>

\* A client calls writer->push( 0 ).
PushNull ==
    /\ cur = NULL
    /\ dtor = "none"
    /\ m_queue' = push(m_queue, NULL)
    /\ UNCHANGED <<sFreeId, heap, nalloc, cur, wpc, imageset, wi, fs, wlog,
                   pushed, dtor, wqvars, thvars, lkvars, tbvars, appvars>>

\* ~AsyncImageWriter: m_queue.produce( 0 ), then pthread_join.
Destroy ==
    /\ cur = NULL
    /\ dtor = "none"
    /\ m_queue' = produce(m_queue, NULL)
    /\ dtor' = "join"
    /\ UNCHANGED <<sFreeId, heap, nalloc, cur, wpc, imageset, wi, fs, wlog,
                   pushed, wqvars, thvars, lkvars, tbvars, appvars>>

\* ~AsyncImageWriter: pthread_join returns once ThreadProc has returned.
Join ==
    /\ dtor = "join"
    /\ wpc = "exit"
    /\ dtor' = "done"
    /\ UNCHANGED <<m_queue, sFreeId, heap, nalloc, cur, wpc, imageset, wi, fs,
                   wlog, pushed, wqvars, thvars, lkvars, tbvars, appvars>>

\* ---- the worker thread (AsyncImageWriter::ThreadProc)

\* while ( m_queue.consume( imageset, true ) ): the call reaches sem_wait.
W_Consume ==
    /\ wpc = "loop"
    /\ wpc' = "sem_wait"
    /\ UNCHANGED <<m_queue, sFreeId, heap, nalloc, cur, imageset, wi, fs, wlog,
                   pushed, dtor, wqvars, thvars, lkvars, tbvars, appvars>>

\* sem_wait returns.
W_SemWait ==
    /\ wpc = "sem_wait"
    /\ sem_available(m_queue)
    /\ m_queue' = sem_take(m_queue)
    /\ wpc' = "cs"
    /\ UNCHANGED <<sFreeId, heap, nalloc, cur, imageset, wi, fs, wlog, pushed,
                   dtor, wqvars, thvars, lkvars, tbvars, appvars>>

\* The critical section of consume; consume returns true.
W_ConsumeCS ==
    /\ wpc = "cs"
    /\ \E g \in 1..MaxSets :
          LET r == consume_cs(m_queue, g) IN
          /\ m_queue' = r.q
          /\ imageset' = r.elem
    /\ wpc' = "got"
    /\ UNCHANGED <<sFreeId, heap, nalloc, cur, wi, fs, wlog, pushed, dtor,
                   wqvars, thvars, lkvars, tbvars, appvars>>

\* The frame of a worker step whose events are ev: the callbacks among them
\* queue their requests; the rest of the dispatch thread's state is left.
WorkerFrame(ev) ==
    /\ requestQueue' = AfterCallbacks(requestQueue, ev)
    /\ submitted' = submitted \o CallbackRequests(ev)
    /\ UNCHANGED <<taskQueue, dpc, writer, m_outputDirPrefix, m_sensor, m_currentState,
                   previousState, isViewerActive, shot, cycled, jni, applied,
                   touchAction, touchX, touchY, touched, batch, m_currentMode>>

\* if ( imageset == 0 ) break; else dumpToFileSystem begins: it returns at
\* once for a set without valid frame (and the set is deleted), else it
\* writes the descriptor and calls back.
W_Dump ==
    /\ wpc = "got"
    /\ IF imageset = NULL
       THEN /\ wpc' = "exit"
            /\ UNCHANGED <<wi, fs, wlog, appvars>>
       ELSE LET is == heap[imageset]
                ev == DumpDescriptor(imageset, is) IN
            /\ fs' = fs \cup FilesOf(ev)
            /\ WorkerFrame(ev)
            /\ IF ev = <<>>
               THEN /\ wlog' = wlog \o <<[ev |-> "dump", set |-> imageset],
                                         [ev |-> "delete", set |-> imageset]>>
                    /\ wpc' = "loop"
                    /\ UNCHANGED wi
               ELSE /\ wlog' = wlog \o <<[ev |-> "dump", set |-> imageset]>> \o ev
                    /\ wi' = 0
                    /\ wpc' = "dump_img"
    /\ UNCHANGED <<m_queue, sFreeId, heap, nalloc, cur, imageset, pushed, dtor,
                   wqvars, thvars, lkvars, tbvars>>

\* dumpToFileSystem, third loop: one frame; after the last one
\* dumpToFileSystem returns and ThreadProc deletes the set.
W_DumpFrame ==
    /\ wpc = "dump_img"
    /\ LET is == heap[imageset] IN
       IF wi < Len(is.m_frames)
       THEN LET ev == DumpFrame(imageset, is, wi) IN
            /\ fs' = fs \cup FilesOf(ev)
            /\ wlog' = wlog \o ev
            /\ WorkerFrame(ev)
            /\ wi' = wi + 1
            /\ UNCHANGED wpc
       ELSE /\ wlog' = Append(wlog, [ev |-> "delete", set |-> imageset])
            /\ wpc' = "loop"
            /\ UNCHANGED <<fs, wi, appvars>>
    /\ UNCHANGED <<m_queue, sFreeId, heap, nalloc, cur, imageset, pushed, dtor,
                   wqvars, thvars, lkvars, tbvars>>

\* ======================================================== DownsampleChannel
\* #define THUMBNAIL_BLUR_RADIUS 5, and the largest unsigned char.
THUMBNAIL_BLUR_RADIUS == 5
UCHAR_MAX == 255

\* Shifts of a non-negative int by 16 bits (the sizes modelled keep every
\* intermediate far below 2^31).
Shl16(x) == x * 65536
Shr16(x) == x \div 65536

\* The normalisation by the radius instead of its square.
THUMBNAIL_BLUR_NORM_radius == 65536 \div THUMBNAIL_BLUR_RADIUS

\* #define THUMBNAIL_BLUR_NORM (0x10000/(THUMBNAIL_BLUR_RADIUS*THUMBNAIL_BLUR_RADIUS))
THUMBNAIL_BLUR_NORM ==
    65536 \div (THUMBNAIL_BLUR_RADIUS * THUMBNAIL_BLUR_RADIUS)

\* THUMBNAIL_BLUR_RADIUS & ~1: the radius with its lowest bit cleared.
RadiusEven == THUMBNAIL_BLUR_RADIUS - (THUMBNAIL_BLUR_RADIUS % 2)

\* src[srcindex + x] in row y of the filter window, for the n-th pixel of the
\* window (y = n / RADIUS, x = n % RADIUS; srcindex += srcWidth per row).
WindowIndex(srcW, srcindex, n) ==
    srcindex + (n \div THUMBNAIL_BLUR_RADIUS) * srcW + (n % THUMBNAIL_BLUR_RADIUS)

\* The blur filter of DownsampleChannel: the sum of the RADIUS x RADIUS
\* source pixels from srcindex on, rows srcW apart.
RECURSIVE BlurSum(_, _, _, _)
BlurSum(s, srcW, srcindex, n) ==
    IF n = THUMBNAIL_BLUR_RADIUS * THUMBNAIL_BLUR_RADIUS THEN 0
    ELSE s[WindowIndex(srcW, srcindex, n)] + BlurSum(s, srcW, srcindex, n + 1)

\* A step over the whole source side instead of the side less the window.
ScaleStep_full(srcSide, dstSide) == Shl16(srcSide) \div dstSide

\* ax and ay: (( srcSide - ( THUMBNAIL_BLUR_RADIUS & ~1 ) ) << 16 ) / dstSide.
ScaleStep(srcSide, dstSide) == Shl16(srcSide - RadiusEven) \div dstSide

\* srcindex of destination pixel dstindex = i * dstW + j: rowindex +
\* ( tx >> 16 ) with ty = i * ay and tx = j * ax.
SrcIndex(dstW, dstH, srcW, srcH, dstindex) ==
    LET ax == ScaleStep(srcW, dstW)
        ay == ScaleStep(srcH, dstH)
        i  == dstindex \div dstW
        j  == dstindex % dstW
    IN  Shr16(i * ay) * srcW + Shr16(j * ax)

\* The indices of src the call reads.
SourceReads(dstW, dstH, srcW, srcH) ==
    {WindowIndex(srcW, SrcIndex(dstW, dstH, srcW, srcH, dstindex), n) :
        dstindex \in 0..(dstW * dstH - 1),
        n \in 0..(THUMBNAIL_BLUR_RADIUS * THUMBNAIL_BLUR_RADIUS - 1)}

\* DownsampleChannel( dest, dstWidth, dstHeight, src, srcWidth, srcHeight ):
\* the destination plane it fills.  Pixel dstindex = i * dstW + j is computed
\* with ty = i * ay and tx = j * ax, and stored as an unsigned char.
DownsampleChannel(dstW, dstH, s, srcW, srcH) ==
    [dstindex \in 0..(dstW * dstH - 1) |->
        LET srcindex == SrcIndex(dstW, dstH, srcW, srcH, dstindex)
            sum      == BlurSum(s, srcW, srcindex, 0)
        IN  Shr16(sum * THUMBNAIL_BLUR_NORM) % (UCHAR_MAX + 1)]

\* CreateThumbnail calls DownsampleChannel on a plane (the luma plane with
\* the image's extents, a chroma plane with half of them).  A read outside
\* the plane is undefined: the destination may then hold anything.
Downsample ==
    /\ thpc = "call"
    /\ IF SourceReads(dstWidth, dstHeight, srcWidth, srcHeight) \subseteq DOMAIN src
       THEN /\ dest' = DownsampleChannel(dstWidth, dstHeight, src, srcWidth, srcHeight)
            /\ oob' = FALSE
       ELSE /\ dest' \in [0..(dstWidth * dstHeight - 1) -> {0, UCHAR_MAX}]
            /\ oob' = TRUE
    /\ thpc' = "done"
    /\ UNCHANGED <<src, srcWidth, srcHeight, dstWidth, dstHeight, wqvars,
                   tbvars, aiwvars, appvars, lkvars>>

\* ============================================================ FCamAppThread
\* Camera::ShotParams with every field set to v (flashOn to 0).
ShotParams(v) ==
    [exposure |-> v, gain |-> v, wb |-> v, focus |-> v, flashOn |-> 0]

\* #define FCAM_MAX_PICTURES_PER_SHOT 16.
FCAM_MAX_PICTURES_PER_SHOT == 16

\* camera->m_currentState after Camera::Camera: the constructor ends with
\* memset( &m_currentState, 0, sizeof( CaptureState ) ).
CaptureState ==
    [preview |-> [evaluated |-> ShotParams(0), user |-> ShotParams(0),
                  autoExposure |-> FALSE, autoFocus |-> FALSE,
                  autoGain |-> FALSE, autoWB |-> FALSE, histogramData |-> 0],
     pendingImages |-> [i \in 0..(FCAM_MAX_PICTURES_PER_SHOT - 1) |-> ShotParams(0)],
     pendingImagesCount |-> 0]

\* bool to int conversion and ^ on the two ints it yields.
BoolToInt(b) == IF b THEN 1 ELSE 0
Xor(a, b) == IF a = b THEN 0 ELSE 1

\* The auto toggle that leaves the user value alone when the mode goes off.
AutoOn_keepuser(cs, ps, flag, field, data) ==
    LET prevValue == cs.preview[flag]
        cs1       == [cs EXCEPT !.preview[flag] = (data # 0)]
    IN  IF ~prevValue /\ cs1.preview[flag]
        THEN [cs |-> cs1,
              ps |-> [ps EXCEPT !.preview.evaluated[field] = cs1.preview.user[field]]]
        ELSE [cs |-> cs1, ps |-> ps]

\* The auto toggle that compares the flags the other way round: it restores
\* the user value when the mode is switched on.
AutoOn_swapped(cs, ps, flag, field, data) ==
    LET prevValue == cs.preview[flag]
        cs1       == [cs EXCEPT !.preview[flag] = (data # 0)]
    IN  IF prevValue /\ ~cs1.preview[flag]
        THEN [cs |-> cs1,
              ps |-> [ps EXCEPT !.preview.evaluated[field] = cs1.preview.user[field]]]
        ELSE [cs |-> [cs1 EXCEPT !.preview.user[field] = ps.preview.evaluated[field]],
              ps |-> ps]

\* case PARAM_PREVIEW_AUTO_*_ON, for the flag and the ShotParams field of the
\* case.  The condition is parsed as
\*   !prevValue && ( prevValue ^ ( flag != 0 ) ).
AutoOn(cs, ps, flag, field, data) ==
    LET prevValue == cs.preview[flag]
        cs1       == [cs EXCEPT !.preview[flag] = (data # 0)]
    IN  IF ~prevValue
           /\ Xor(BoolToInt(prevValue), BoolToInt(BoolToInt(cs1.preview[flag]) # 0)) # 0
        THEN [cs |-> cs1,
              ps |-> [ps EXCEPT !.preview.evaluated[field] = cs1.preview.user[field]]]
        ELSE [cs |-> [cs1 EXCEPT !.preview.user[field] = ps.preview.evaluated[field]],
              ps |-> ps]

\* The cases of the switch that only touch the two capture states.
StateRequestIds ==
    {"PARAM_PREVIEW_EXPOSURE", "PARAM_PREVIEW_FOCUS", "PARAM_PREVIEW_GAIN",
     "PARAM_PREVIEW_WB", "PARAM_PREVIEW_AUTO_EXPOSURE_ON",
     "PARAM_PREVIEW_AUTO_FOCUS_ON", "PARAM_PREVIEW_AUTO_GAIN_ON",
     "PARAM_PREVIEW_AUTO_WB_ON", "PARAM_BURST_SIZE", "PARAM_SHOT"}

\* switch ( taskId ), the cases of StateRequestIds.
DispatchState(cs, ps, task) ==
    LET d == task.m_data IN
    CASE task.m_id = "PARAM_SHOT" ->
            [cs |-> [cs EXCEPT !.pendingImages[task.m_pictureId] =
                        [exposure |-> d[1], focus |-> d[2], gain |-> d[3],
                         wb |-> d[4], flashOn |-> BoolToInt(d[5] > 0)]],
             ps |-> ps]
      [] task.m_id = "PARAM_PREVIEW_EXPOSURE" ->
            [cs |-> [cs EXCEPT !.preview.user.exposure = d], ps |-> ps]
      [] task.m_id = "PARAM_PREVIEW_FOCUS" ->
            [cs |-> [cs EXCEPT !.preview.user.focus = d], ps |-> ps]
      [] task.m_id = "PARAM_PREVIEW_GAIN" ->
            [cs |-> [cs EXCEPT !.preview.user.gain = d], ps |-> ps]
      [] task.m_id = "PARAM_PREVIEW_WB" ->
            [cs |-> [cs EXCEPT !.preview.user.wb = d], ps |-> ps]
      [] task.m_id = "PARAM_PREVIEW_AUTO_EXPOSURE_ON" ->
            AutoOn(cs, ps, "autoExposure", "exposure", d)
      [] task.m_id = "PARAM_PREVIEW_AUTO_FOCUS_ON" ->
            AutoOn(cs, ps, "autoFocus", "focus", d)
      [] task.m_id = "PARAM_PREVIEW_AUTO_GAIN_ON" ->
            AutoOn(cs, ps, "autoGain", "gain", d)
      [] task.m_id = "PARAM_PREVIEW_AUTO_WB_ON" ->
            AutoOn(cs, ps, "autoWB", "wb", d)
      [] task.m_id = "PARAM_BURST_SIZE" ->
            [cs |-> [cs EXCEPT !.pendingImagesCount = d], ps |-> ps]

\* setup preview shot params.
PreviewShot(cs, ps) ==
    [exposure     |-> IF cs.preview.autoExposure
                      THEN ps.preview.evaluated.exposure ELSE cs.preview.user.exposure,
     gain         |-> IF cs.preview.autoGain
                      THEN ps.preview.evaluated.gain ELSE cs.preview.user.gain,
     whiteBalance |-> IF cs.preview.autoWB
                      THEN ps.preview.evaluated.wb ELSE cs.preview.user.wb]

\* update param estimates: autoExpose, autoWhiteBalance and the auto focus
\* write what they estimated (est) into the evaluated values; afBusy is
\* !camera->m_autoFocus->idle().  update histogram data: the normalised
\* histogram of the frame (est.histogram, 0 standing for all bins zero).
UpdateEstimates(cs, est, afBusy) ==
    LET c1 == IF cs.preview.autoExposure \/ cs.preview.autoGain
              THEN [cs EXCEPT !.preview.evaluated.exposure = est.exposure,
                              !.preview.evaluated.gain = est.gain]
              ELSE cs
        c2 == IF c1.preview.autoWB
              THEN [c1 EXCEPT !.preview.evaluated.wb = est.wb] ELSE c1
        c3 == IF afBusy THEN [c2 EXCEPT !.preview.evaluated.focus = est.focus]
              ELSE c2
    IN  [c3 EXCEPT !.preview.histogramData = est.histogram]

\* ---- the UI thread

\* The requests of the UI thread among those queued so far.
UIRequests == SelectSeq(submitted, LAMBDA r : r.m_id # "PARAM_PRIV_FS_CHANGED")

\* Java_com_nvidia_fcamerapro_FCamInterface_setParam*: the UI thread queues
\* request c.
Submit(c) ==
    /\ requestQueue' = produce(requestQueue, c)
    /\ submitted' = Append(submitted, c)
    /\ UNCHANGED <<taskQueue, dpc, writer, m_outputDirPrefix, m_sensor, m_currentState,
                   previousState, isViewerActive, shot, cycled, jni, applied,
                   touchAction, touchX, touchY, touched, batch, m_currentMode, wqvars, thvars, lkvars, tbvars, aiwvars>>

\* getParamFloat: the condition of the case's ?: (the case
\* PARAM_CAPTURE_FPS aside); FALSE for an id without such a case.
ParamFloatFlag(ps, paramId) ==
    CASE paramId = "PARAM_PREVIEW_EXPOSURE" -> ps.preview.autoExposure
      [] paramId = "PARAM_PREVIEW_FOCUS" -> ps.preview.autoFocus
      [] paramId = "PARAM_PREVIEW_GAIN" -> ps.preview.autoGain
      [] paramId = "PARAM_PREVIEW_WB" -> ps.preview.autoWB
      [] OTHER -> FALSE

\* getParamFloat: the branch of ?: that flag selects; -1 by default.
ParamFloatValue(ps, paramId, flag) ==
    LET sp == IF flag THEN ps.preview.evaluated ELSE ps.preview.user IN
    CASE paramId = "PARAM_PREVIEW_EXPOSURE" -> sp.exposure
      [] paramId = "PARAM_PREVIEW_FOCUS" -> sp.focus
      [] paramId = "PARAM_PREVIEW_GAIN" -> sp.gain
      [] paramId = "PARAM_PREVIEW_WB" -> sp.wb
      [] OTHER -> -1

\* What getParamFloat returns when nothing changes ps during the call.
ParamFloat(ps, paramId) == ParamFloatValue(ps, paramId, ParamFloatFlag(ps, paramId))

\* History for a getParamFloat under way: the values of its parameter in the
\* states previousState has been in since the call began; for a memcpy under
\* way the state being copied counts as well.
Observe(ps) ==
    IF upc = "getParamFloat"
    THEN [uobs EXCEPT !.seen = @ \cup {ParamFloat(ps, uarg.param)}]
    ELSE uobs

\* ---- the dispatch thread: one iteration of for ( ;; ) in FCamAppThread

\* m_sensor->shotsPending().
shotsPending == Len(m_sensor.queue)

\* The ids whose case in switch ( taskId ) is not the default one.
SupportedIds ==
    StateRequestIds \cup
    {"PARAM_RESOLUTION", "PARAM_OUTPUT_FORMAT", "PARAM_VIEWER_ACTIVE",
     "PARAM_OUTPUT_DIRECTORY", "PARAM_OUTPUT_FILE_ID", "PARAM_TAKE_PICTURE",
     "PARAM_PRIV_FS_CHANGED", "PARAM_SELECT_CAMERA", "PARAM_FOCUS_ON_TOUCH",
     "PARAM_WB_ON_TOUCH"}

\* #define BACK_, FRONT_ and STEREO_PREVIEW_IMAGE_WIDTH and _HEIGHT.
BACK_PREVIEW_IMAGE_WIDTH == 960
BACK_PREVIEW_IMAGE_HEIGHT == 720
FRONT_PREVIEW_IMAGE_WIDTH == 960
FRONT_PREVIEW_IMAGE_HEIGHT == 720
STEREO_PREVIEW_IMAGE_WIDTH == 960
STEREO_PREVIEW_IMAGE_HEIGHT == 720

\* #define SELECT_FRONT_CAMERA, SELECT_BACK_CAMERA, SELECT_STEREO_CAMERA.
SELECT_FRONT_CAMERA == 0
SELECT_BACK_CAMERA == 1
SELECT_STEREO_CAMERA == 2

\* Camera::Camera( width, height, mode ): a new sensor, a preview image of
\* width x height, and m_currentState set to zero by memset.
Camera(width, height, mode) ==
    [m_currentMode  |-> mode,
     m_imageWidth   |-> width,
     m_imageHeight  |-> height,
     m_sensor       |-> [streaming |-> FALSE, queue |-> <<>>],
     m_currentState |-> CaptureState]

\* The Camera object FCamAppThread's camera points to.
camera ==
    [m_currentMode  |-> m_currentMode,
     m_imageWidth   |-> CASE m_currentMode = "Front" -> FRONT_PREVIEW_IMAGE_WIDTH
                          [] m_currentMode = "Back" -> BACK_PREVIEW_IMAGE_WIDTH
                          [] m_currentMode = "Stereo" -> STEREO_PREVIEW_IMAGE_WIDTH,
     m_imageHeight  |-> CASE m_currentMode = "Front" -> FRONT_PREVIEW_IMAGE_HEIGHT
                          [] m_currentMode = "Back" -> BACK_PREVIEW_IMAGE_HEIGHT
                          [] m_currentMode = "Stereo" -> STEREO_PREVIEW_IMAGE_HEIGHT,
     m_sensor       |-> m_sensor,
     m_currentState |-> m_currentState]

\* case PARAM_SELECT_CAMERA, switch ( taskDataInt[0] ): for a mode other than
\* the current one the camera is deleted and a new one constructed; any
\* other value leaves the camera as it is.
SelectCamera(cam, data) ==
    CASE data = SELECT_FRONT_CAMERA ->
            IF cam.m_currentMode # "Front"
            THEN Camera(FRONT_PREVIEW_IMAGE_WIDTH, FRONT_PREVIEW_IMAGE_HEIGHT,
                        "Front")
            ELSE cam
      [] data = SELECT_BACK_CAMERA ->
            IF cam.m_currentMode # "Back"
            THEN Camera(BACK_PREVIEW_IMAGE_WIDTH, BACK_PREVIEW_IMAGE_HEIGHT,
                        "Back")
            ELSE cam
      [] data = SELECT_STEREO_CAMERA ->
            IF cam.m_currentMode # "Stereo"
            THEN Camera(STEREO_PREVIEW_IMAGE_WIDTH, STEREO_PREVIEW_IMAGE_HEIGHT,
                        "Stereo")
            ELSE cam
      [] OTHER -> cam

\* The request is a touch event: case PARAM_FOCUS_ON_TOUCH, case
\* PARAM_WB_ON_TOUCH.
IsTouch(task) == task.m_id \in {"PARAM_FOCUS_ON_TOUCH", "PARAM_WB_ON_TOUCH"}

\* The place in applied of the touch event dispatched last (0: none).
LastTouch ==
    LET S == {k \in DOMAIN applied : IsTouch(applied[k])} IN
    IF S = {} THEN 0 ELSE CHOOSE k \in S : \A j \in S : j <= k

\* The slots of pendingImages.
PendingSlots == 0..(FCAM_MAX_PICTURES_PER_SHOT - 1)

\* The task writes pendingImages[pictureId] outside the array.
WritesOutside(task) ==
    task.m_id = "PARAM_SHOT" /\ task.m_pictureId \notin PendingSlots

\* The temperatures GetLocalColorTemparature comes up with.
LocalTemperatures == {3}

\* switch ( touchAction ) after getFrame.  TOUCH_ACTION_FOCUS starts a sweep
\* if auto focus is on and idle.  TOUCH_ACTION_WHITE_BALANCE calls
\* GetLocalColorTemparature( shot.whiteBalance, ... ), which returns temp;
\* the call is a statement of its own, nothing is assigned.  The result is
\* whether a sweep was started, and shot.whiteBalance and
\* m_currentState.preview.evaluated.wb after the switch.
TouchSwitch(action, cs, afBusy, whiteBalance, temp) ==
    [startSweep   |-> action = "TOUCH_ACTION_FOCUS" /\ cs.preview.autoFocus
                         /\ ~afBusy,
     whiteBalance |-> whiteBalance,
     evaluated    |-> cs.preview.evaluated.wb]

\* The record of the touch actions the switch after getFrame has applied:
\* which touch event of applied it was, the action and the point, the
\* temperature the estimator returned, shot.whiteBalance and the evaluated
\* white balance after the switch, and whether a sweep was started.
Touched(hist, t, temp) ==
    IF touchAction = "TOUCH_ACTION_NONE" THEN hist
    ELSE Append(hist, [cmd          |-> LastTouch,
                       action       |-> touchAction,
                       x            |-> touchX,
                       y            |-> touchY,
                       temp         |-> IF touchAction = "TOUCH_ACTION_WHITE_BALANCE"
                                        THEN temp ELSE 0,
                       whiteBalance |-> t.whiteBalance,
                       evaluated    |-> t.evaluated,
                       startSweep   |-> t.startSweep])

\* touchX = 0, touchY = 0 and touchAction = TOUCH_ACTION_NONE at the top of
\* the iteration, then sAppData->requestQueue.consumeAll( taskQueue ).
D_ConsumeAll ==
    /\ dpc = "drain"
    /\ LET r == consumeAll(requestQueue) IN
          /\ requestQueue' = r.q
          /\ taskQueue' = r.queue
    /\ touchAction' = "TOUCH_ACTION_NONE"
    /\ touchX' = 0
    /\ touchY' = 0
    /\ dpc' = "tasks"
    /\ batch' = Len(applied)
    /\ UNCHANGED <<touched, m_currentMode, writer, m_outputDirPrefix, m_sensor,
                   m_currentState, previousState,
                   isViewerActive, shot, cycled, jni, submitted, applied,
                   wqvars, thvars, lkvars, tbvars, aiwvars>>

\* A switch in which PARAM_CAPTURE_FPS falls into the case
\* PARAM_VIEWER_ACTIVE.
DispatchViewer_fallthrough(task, active) ==
    IF task.m_id \in {"PARAM_VIEWER_ACTIVE", "PARAM_CAPTURE_FPS"}
    THEN task.m_data # 0 ELSE active

\* case PARAM_VIEWER_ACTIVE: tdata->isViewerActive after the task.
DispatchViewer(task, active) ==
    IF task.m_id = "PARAM_VIEWER_ACTIVE" THEN task.m_data # 0 ELSE active

\* AsyncImageWriter::AsyncImageWriter( outputDirPrefix ): the prefix, with a
\* '/' added to the path if it is not there already.
AsyncImageWriter(outputDirPrefix) ==
    [writer            |-> 1,
     m_outputDirPrefix |-> IF outputDirPrefix[Len(outputDirPrefix)] # "/"
                           THEN Append(outputDirPrefix, "/")
                           ELSE outputDirPrefix]

\* An initialization that makes a new writer for every directory it is sent.
DispatchWriter_everytime(task, w) ==
    IF task.m_id = "PARAM_OUTPUT_DIRECTORY"
    THEN AsyncImageWriter(task.m_data) ELSE w

\* case PARAM_OUTPUT_DIRECTORY, the one-time async writer initialization:
\* the writer and its directory (w) after the task.
DispatchWriter(task, w) ==
    IF task.m_id = "PARAM_OUTPUT_DIRECTORY" /\ w.writer = NULL
    THEN AsyncImageWriter(task.m_data) ELSE w

\* A capture that does not ask for the writer.
TakePicture_nowriter(task, w) ==
    task.m_id = "PARAM_TAKE_PICTURE" /\ task.m_data # 0

\* case PARAM_TAKE_PICTURE: take pictures only if we can write them out, and
\* only for a value other than 0.
TakePicture(task, w) ==
    task.m_id = "PARAM_TAKE_PICTURE" /\ w # NULL /\ task.m_data # 0

\* A loop that goes on to the preview whatever the viewer's state.
AfterTasks_always(active) == "preview"

\* if ( !tdata->isViewerActive ) continue: where the iteration goes on.
AfterTasks(active) == IF active THEN "preview" ELSE "drain"

\* An unlock that leaves the mutex as it is.
pthread_mutex_unlock_noop(mutex) == mutex

\* pthread_mutex_unlock( &mutex ).
pthread_mutex_unlock(mutex) == "free"

\* How many frames of the stream may be pending when it is stopped.
InFlight(sensor) ==
    IF sensor.streaming /\ sensor.queue = <<>> THEN 0..MaxInFlight ELSE {0}

\* m_sensor->stopStreaming(): of the frames in flight n are still pending
\* (slot -1: a frame of the preview stream).
stopStreaming(sensor, n) ==
    [streaming |-> FALSE,
     queue     |-> sensor.queue \o [k \in 1..n |-> [slot |-> -1]]]

\* m_sensor->stream( shot ), then m_sensor->getFrame(): the sensor streams
\* and hands out the oldest frame pending.
StreamFrame(sensor) ==
    [streaming |-> TRUE,
     queue     |-> IF sensor.queue = <<>> THEN <<>> ELSE Tail(sensor.queue)]

\* while ( !taskQueue.empty() ): task = taskQueue.front(); taskQueue.pop();
\* switch ( taskId ).  PARAM_TAKE_PICTURE with a writer and a value other
\* than 0 sets isCapturing, notifies the capture start and enters
\* Camera::capture, which stops the streaming.  PARAM_SHOT with a picture id
\* that is no slot of pendingImages writes outside the array: what follows
\* is undefined and is not followed further.  (The case PARAM_SELECT_CAMERA
\* takes a lock and has its own steps, D_SelectLock and D_SelectCamera.)
D_Task ==
    /\ dpc = "tasks"
    /\ taskQueue # <<>>
    /\ Head(taskQueue).m_id # "PARAM_SELECT_CAMERA"
    /\ LET task == Head(taskQueue)
           id   == task.m_id
           d    == task.m_data
           take == TakePicture(task, writer)
           w    == DispatchWriter(task, [writer |-> writer,
                                         m_outputDirPrefix |-> m_outputDirPrefix])
           st   == IF id \in StateRequestIds /\ ~WritesOutside(task)
                   THEN DispatchState(m_currentState, previousState, task)
                   ELSE [cs |-> m_currentState, ps |-> previousState]
       IN  /\ taskQueue' = Tail(taskQueue)
           /\ applied' = Append(applied, task)
           /\ m_currentState' = st.cs
           /\ previousState' = st.ps
           /\ isViewerActive' = DispatchViewer(task, isViewerActive)
           /\ writer' = w.writer
           /\ m_outputDirPrefix' = w.m_outputDirPrefix
           /\ sFreeId' = IF id = "PARAM_OUTPUT_FILE_ID" THEN d ELSE sFreeId
           /\ touchAction' =
                 IF id \in {"PARAM_FOCUS_ON_TOUCH", "PARAM_WB_ON_TOUCH"}
                 THEN (IF id = "PARAM_FOCUS_ON_TOUCH" /\ task.m_pictureId = 0
                       THEN "TOUCH_ACTION_FOCUS"
                       ELSE "TOUCH_ACTION_WHITE_BALANCE")
                 ELSE touchAction
           /\ touchX' = IF IsTouch(task) THEN d[1] * camera.m_imageWidth
                        ELSE touchX
           /\ touchY' = IF IsTouch(task) THEN d[2] * camera.m_imageHeight
                        ELSE touchY
           /\ isCapturing' = IF take THEN TRUE ELSE isCapturing
           /\ IF take \/ (id = "PARAM_VIEWER_ACTIVE" /\ ~isViewerActive')
              THEN \E n \in InFlight(m_sensor) :
                      m_sensor' = stopStreaming(m_sensor, n)
              ELSE m_sensor' = m_sensor
           /\ dpc' = IF take THEN "discard"
                     ELSE IF WritesOutside(task) THEN "undefined" ELSE "tasks"
           /\ jni' = IF take THEN Append(jni, "notifyCaptureStart")
                     ELSE IF id = "PARAM_PRIV_FS_CHANGED" /\ d # 0
                          THEN Append(jni, "notifyFileSystemChange")
                          ELSE jni
    /\ uobs' = Observe(previousState')
    /\ cycled' = FALSE
    /\ UNCHANGED <<touched, batch, m_currentMode, requestQueue, shot, submitted, m_queue, heap, nalloc, cur,
                   wpc, imageset, wi, fs, wlog, pushed, dtor,
                   previousStateLock, renderingThreadLock, previewBuffer,
                   previewBufferTexId, upc, uarg, urval, wqvars, thvars,
                   tbvars>>

\* Camera::capture: while ( m_sensor->shotsPending() > 0 )
\* m_sensor->getFrame(), the frame being dropped.
D_Discard ==
    /\ dpc = "discard"
    /\ shotsPending > 0
    /\ m_sensor' = [m_sensor EXCEPT !.queue = Tail(@)]
    /\ UNCHANGED <<requestQueue, taskQueue, dpc, writer, m_outputDirPrefix, m_currentState,
                   previousState, isViewerActive, shot, cycled, jni, submitted,
                   applied, touchAction, touchX, touchY, touched, batch, m_currentMode, wqvars, thvars, lkvars, tbvars,
                   aiwvars>>

\* for ( i = 0; i < m_currentState.pendingImagesCount; i++ ) of
\* Camera::capture reads pendingImages[i] past the end of the array.
ReadsOutside(cs) == cs.pendingImagesCount > FCAM_MAX_PICTURES_PER_SHOT

\* A capture that fires the flash with every shot.
CaptureShots_allflash(cs) ==
    [k \in 1..(IF cs.pendingImagesCount > 0 THEN cs.pendingImagesCount ELSE 0) |->
        [slot         |-> k - 1,
         exposure     |-> cs.pendingImages[k - 1].exposure,
         gain         |-> cs.pendingImages[k - 1].gain,
         whiteBalance |-> cs.pendingImages[k - 1].wb,
         flashAction  |-> TRUE]]

\* The shots the for loop of Camera::capture hands to m_sensor->capture: one
\* per pending image, with a flash action where flashOn is set.
CaptureShots(cs) ==
    [k \in 1..(IF cs.pendingImagesCount > 0 THEN cs.pendingImagesCount ELSE 0) |->
        [slot         |-> k - 1,
         exposure     |-> cs.pendingImages[k - 1].exposure,
         gain         |-> cs.pendingImages[k - 1].gain,
         whiteBalance |-> cs.pendingImages[k - 1].wb,
         flashAction  |-> cs.pendingImages[k - 1].flashOn # 0]]

\* Camera::capture, no shot pending any more: ImageSet * is =
\* writer->newImageSet(), then the for loop that queues the shots.
D_Shots ==
    /\ dpc = "discard"
    /\ shotsPending = 0
    /\ LET r == newImageSet(sFreeId, fs) IN
          /\ heap' = Append(heap, r.is)
          /\ sFreeId' = r.sFreeId
    /\ nalloc' = nalloc + 1
    /\ cur' = nalloc + 1
    /\ m_sensor' = IF ReadsOutside(m_currentState) THEN m_sensor
                   ELSE [m_sensor EXCEPT !.queue = CaptureShots(m_currentState)]
    /\ dpc' = IF ReadsOutside(m_currentState) THEN "undefined" ELSE "capture"
    /\ UNCHANGED <<requestQueue, taskQueue, writer, m_outputDirPrefix, m_currentState,
                   previousState, isViewerActive, shot, cycled, jni, submitted,
                   applied, touchAction, touchX, touchY, touched, batch, m_currentMode, m_queue, wpc, imageset, wi, fs, wlog,
                   pushed, dtor, wqvars, thvars, lkvars, tbvars>>

\* case PARAM_SELECT_CAMERA: pthread_mutex_lock( &tdata->renderingThreadLock ).
D_SelectLock ==
    /\ dpc = "tasks"
    /\ taskQueue # <<>>
    /\ Head(taskQueue).m_id = "PARAM_SELECT_CAMERA"
    /\ renderingThreadLock = "free"
    /\ renderingThreadLock' = "dispatch"
    /\ dpc' = "select"
    /\ UNCHANGED <<requestQueue, taskQueue, writer, m_outputDirPrefix, m_sensor,
                   m_currentState, previousState, isViewerActive, shot, cycled,
                   jni, submitted, applied, touchAction, touchX, touchY,
                   touched, batch, m_currentMode, previousStateLock, isCapturing,
                   previewBuffer, previewBufferTexId, upc, uarg, urval, uobs,
                   wqvars, thvars, tbvars, aiwvars>>

\* case PARAM_SELECT_CAMERA with the lock held: the switch on
\* taskDataInt[0], tdata->currentCamera = camera,
\* pthread_mutex_unlock( &tdata->renderingThreadLock ).
D_SelectCamera ==
    /\ dpc = "select"
    /\ LET task == Head(taskQueue)
           cam  == SelectCamera(camera, task.m_data)
       IN  /\ taskQueue' = Tail(taskQueue)
           /\ applied' = Append(applied, task)
           /\ m_currentMode' = cam.m_currentMode
           /\ m_sensor' = cam.m_sensor
           /\ m_currentState' = cam.m_currentState
    /\ renderingThreadLock' = pthread_mutex_unlock(renderingThreadLock)
    /\ cycled' = FALSE
    /\ dpc' = "tasks"
    /\ UNCHANGED <<requestQueue, writer, m_outputDirPrefix, previousState,
                   isViewerActive, shot, jni, submitted, touchAction, touchX,
                   touchY, touched, batch, previousStateLock, isCapturing,
                   previewBuffer, previewBufferTexId, upc, uarg, urval, uobs,
                   wqvars, thvars, tbvars, aiwvars>>

\* Camera::capture: while ( m_sensor->shotsPending() > 0 )
\* is->add( fmt, m_sensor->getFrame() ): the frame of the oldest shot.
D_Add(valid) ==
    /\ dpc = "capture"
    /\ shotsPending > 0
    /\ heap' = [heap EXCEPT ![cur] =
                   add(@, "EFormatJPEG",
                       [valid |-> valid, shot |-> Head(m_sensor.queue)])]
    /\ m_sensor' = [m_sensor EXCEPT !.queue = Tail(@)]
    /\ UNCHANGED <<requestQueue, taskQueue, dpc, writer, m_outputDirPrefix, m_currentState,
                   previousState, isViewerActive, shot, cycled, jni, submitted,
                   applied, touchAction, touchX, touchY, touched, batch, m_currentMode, m_queue, sFreeId, nalloc, cur, wpc,
                   imageset, wi, fs, wlog, pushed, dtor, wqvars, thvars, lkvars,
                   tbvars>>

\* Camera::capture: writer->push( is ); back in FCamAppThread isCapturing is
\* cleared and the capture completion is notified.
D_Push ==
    /\ dpc = "capture"
    /\ shotsPending = 0
    /\ m_queue' = push(m_queue, cur)
    /\ pushed' = Append(pushed, cur)
    /\ cur' = NULL
    /\ isCapturing' = FALSE
    /\ jni' = Append(jni, "notifyCaptureComplete")
    /\ dpc' = "tasks"
    /\ UNCHANGED <<requestQueue, taskQueue, writer, m_outputDirPrefix, m_sensor, m_currentState,
                   previousState, isViewerActive, shot, cycled, submitted,
                   applied, touchAction, touchX, touchY, touched, batch, m_currentMode, sFreeId, heap, nalloc, wpc, imageset,
                   wi, fs, wlog, dtor, previousStateLock, renderingThreadLock,
                   previewBuffer, previewBufferTexId, pollvars, wqvars, thvars,
                   tbvars>>

\* The local queue is empty: if ( !tdata->isViewerActive ) continue.
D_EndTasks ==
    /\ dpc = "tasks"
    /\ taskQueue = <<>>
    /\ dpc' = AfterTasks(isViewerActive)
    /\ UNCHANGED <<requestQueue, taskQueue, writer, m_outputDirPrefix, m_sensor, m_currentState,
                   previousState, isViewerActive, shot, cycled, jni, submitted,
                   applied, touchAction, touchX, touchY, touched, batch, m_currentMode, wqvars, thvars, lkvars, tbvars,
                   aiwvars>>

\* update framebuffer: if ( tdata->previewBuffer != 0 ) the frame is copied
\* into the back buffer and swapBackBuffer() hands it over.
PublishFrame(pb) == IF pb # <<>> THEN <<TB_swapBackBuffer(pb[1]).b>> ELSE pb

\* The preview cycle as one step, for the runs in which no other thread
\* takes the two locks: the shot is set up and streamed, the estimates of
\* the frame it returns are adopted, the frame is published and the current
\* state is copied to previousState.
D_Preview(est, afBusy) ==
    /\ dpc = "preview"
    /\ renderingThreadLock = "free"
    /\ previousStateLock = "free"
    /\ shot' = PreviewShot(m_currentState, previousState)
    /\ m_sensor' = StreamFrame(m_sensor)
    /\ \E temp \in LocalTemperatures :
          LET t == TouchSwitch(touchAction, m_currentState, afBusy,
                               shot'.whiteBalance, temp)
          IN  /\ touched' = Touched(touched, t, temp)
              /\ m_currentState' =
                    UpdateEstimates(m_currentState, est, afBusy \/ t.startSweep)
    /\ previewBuffer' = PublishFrame(previewBuffer)
    /\ previousState' = m_currentState'
    /\ uobs' = Observe(previousState')
    /\ cycled' = TRUE
    /\ dpc' = "drain"
    /\ UNCHANGED <<requestQueue, taskQueue, writer, m_outputDirPrefix, isViewerActive, jni,
                   submitted, applied, touchAction, touchX, touchY, batch,
                   m_currentMode, previousStateLock,
                   renderingThreadLock, isCapturing, previewBufferTexId,
                   upc, uarg, urval, wqvars, thvars, tbvars, aiwvars>>

\* ---- the preview cycle step by step

\* setup preview shot params; camera->m_sensor->stream( shot ); the thread
\* then waits in camera->m_sensor->getFrame().
D_Stream ==
    /\ dpc = "preview"
    /\ shot' = PreviewShot(m_currentState, previousState)
    /\ m_sensor' = [m_sensor EXCEPT !.streaming = TRUE]
    /\ dpc' = "getFrame"
    /\ UNCHANGED <<requestQueue, taskQueue, writer, m_outputDirPrefix, m_currentState,
                   previousState, isViewerActive, cycled, jni, submitted,
                   applied, touchAction, touchX, touchY, touched, batch, m_currentMode, wqvars, thvars, lkvars, tbvars,
                   aiwvars>>

\* getFrame() returns; switch ( touchAction ); update param estimates.
D_GetFrame(est, afBusy) ==
    /\ dpc = "getFrame"
    /\ m_sensor' = StreamFrame(m_sensor)
    /\ \E temp \in LocalTemperatures :
          LET t == TouchSwitch(touchAction, m_currentState, afBusy,
                               shot.whiteBalance, temp)
          IN  /\ touched' = Touched(touched, t, temp)
              /\ m_currentState' =
                    UpdateEstimates(m_currentState, est, afBusy \/ t.startSweep)
    /\ dpc' = "publish"
    /\ UNCHANGED <<requestQueue, taskQueue, writer, m_outputDirPrefix, previousState,
                   isViewerActive, shot, cycled, jni, submitted, applied,
                   touchAction, touchX, touchY, batch, m_currentMode, wqvars,
                   thvars, lkvars, tbvars, aiwvars>>

\* A publish that goes ahead without the lock.
D_LockRendering_nolock ==
    /\ dpc = "publish"
    /\ dpc' = "publishing"
    /\ UNCHANGED <<requestQueue, taskQueue, writer, m_outputDirPrefix, m_sensor,
                   m_currentState, previousState, isViewerActive, shot, cycled,
                   jni, submitted, applied, touchAction, touchX, touchY,
                   touched, batch, m_currentMode, lkvars, wqvars, thvars,
                   tbvars, aiwvars>>

\* pthread_mutex_lock( &tdata->renderingThreadLock ).
D_LockRendering ==
    /\ dpc = "publish"
    /\ renderingThreadLock = "free"
    /\ renderingThreadLock' = "dispatch"
    /\ dpc' = "publishing"
    /\ UNCHANGED <<requestQueue, taskQueue, writer, m_outputDirPrefix, m_sensor, m_currentState,
                   previousState, isViewerActive, shot, cycled, jni, submitted,
                   applied, touchAction, touchX, touchY, touched, batch, m_currentMode, previousStateLock, isCapturing,
                   previewBuffer, previewBufferTexId, pollvars, wqvars, thvars,
                   tbvars, aiwvars>>

\* The frame goes to the preview buffer;
\* pthread_mutex_unlock( &tdata->renderingThreadLock ).
D_Publish ==
    /\ dpc = "publishing"
    /\ previewBuffer' = PublishFrame(previewBuffer)
    /\ renderingThreadLock' = pthread_mutex_unlock(renderingThreadLock)
    /\ dpc' = "snapshot"
    /\ UNCHANGED <<requestQueue, taskQueue, writer, m_outputDirPrefix, m_sensor, m_currentState,
                   previousState, isViewerActive, shot, cycled, jni, submitted,
                   applied, touchAction, touchX, touchY, touched, batch, m_currentMode, previousStateLock, isCapturing,
                   previewBufferTexId, pollvars, wqvars, thvars, tbvars,
                   aiwvars>>

\* pthread_mutex_lock( &tdata->previousStateLock ).
D_LockPrevious ==
    /\ dpc = "snapshot"
    /\ previousStateLock = "free"
    /\ previousStateLock' = "dispatch"
    /\ dpc' = "memcpy"
    /\ UNCHANGED <<requestQueue, taskQueue, writer, m_outputDirPrefix, m_sensor, m_currentState,
                   previousState, isViewerActive, shot, cycled, jni, submitted,
                   applied, touchAction, touchX, touchY, touched, batch, m_currentMode, renderingThreadLock, isCapturing,
                   previewBuffer, previewBufferTexId, pollvars, wqvars, thvars,
                   tbvars, aiwvars>>

\* memcpy( &tdata->previousState, &camera->m_currentState, ... ) has copied
\* the lower addresses of the object: preview.evaluated and preview.user.
D_Memcpy ==
    /\ dpc = "memcpy"
    /\ previousState' =
          [previousState EXCEPT
              !.preview.evaluated = m_currentState.preview.evaluated,
              !.preview.user = m_currentState.preview.user]
    /\ uobs' = Observe(m_currentState)
    /\ dpc' = "memcpy_rest"
    /\ UNCHANGED <<requestQueue, taskQueue, writer, m_outputDirPrefix, m_sensor, m_currentState,
                   isViewerActive, shot, cycled, jni, submitted, applied,
                   touchAction, touchX, touchY, touched, batch, m_currentMode, previousStateLock, renderingThreadLock,
                   isCapturing, previewBuffer, previewBufferTexId, upc, uarg,
                   urval, wqvars, thvars, tbvars, aiwvars>>

\* memcpy copies the rest; pthread_mutex_unlock( &tdata->previousStateLock ).
D_Unlock ==
    /\ dpc = "memcpy_rest"
    /\ previousState' = m_currentState
    /\ uobs' = Observe(previousState')
    /\ previousStateLock' = pthread_mutex_unlock(previousStateLock)
    /\ cycled' = TRUE
    /\ dpc' = "drain"
    /\ UNCHANGED <<requestQueue, taskQueue, writer, m_outputDirPrefix, m_sensor, m_currentState,
                   isViewerActive, shot, jni, submitted, applied, touchAction, touchX, touchY, touched, batch, m_currentMode,
                   renderingThreadLock, isCapturing, previewBuffer,
                   previewBufferTexId, upc, uarg, urval, wqvars, thvars, tbvars,
                   aiwvars>>

\* ---- the calls of the UI thread

\* #define HISTOGRAM_SIZE 256.
HISTOGRAM_SIZE == 256

\* A setParamFloatArray that does not look at the size of a PARAM_SHOT array.
setParamFloatArray_nocheck(q, paramId, pictureId, value) ==
    IF paramId = "PARAM_SHOT"
    THEN produce(q, ArrayRequest(paramId, pictureId, value))
    ELSE q

\* Java_com_nvidia_fcamerapro_FCamInterface_setParamFloatArray on queue q:
\* the queue after a call with the given id, picture id and array.
setParamFloatArray(q, paramId, pictureId, value) ==
    CASE paramId = "PARAM_SHOT" ->
            IF Len(value) # 5 THEN q
            ELSE produce(q, ArrayRequest(paramId, pictureId, value))
      [] paramId \in {"PARAM_FOCUS_ON_TOUCH", "PARAM_WB_ON_TOUCH"} ->
            IF Len(value) # 2 THEN q
            ELSE produce(q, ArrayRequest(paramId, pictureId, value))
      [] OTHER -> q

\* The UI thread calls setParamFloatArray.
SetParamFloatArray(paramId, pictureId, value) ==
    /\ requestQueue' = setParamFloatArray(requestQueue, paramId, pictureId, value)
    /\ submitted' = IF requestQueue' # requestQueue
                    THEN Append(submitted, ArrayRequest(paramId, pictureId, value))
                    ELSE submitted
    /\ urval' = Append(urval, [op |-> "setParamFloatArray", param |-> paramId,
                               size |-> Len(value)])
    /\ UNCHANGED <<taskQueue, dpc, writer, m_outputDirPrefix, m_sensor, m_currentState,
                   previousState, isViewerActive, shot, cycled, jni, applied,
                   touchAction, touchX, touchY, touched, batch, m_currentMode, previousStateLock, renderingThreadLock,
                   isCapturing, previewBuffer, previewBufferTexId, upc, uarg,
                   uobs, wqvars, thvars, tbvars, aiwvars>>

\* switch ( paramId ) of getParamInt (the case PARAM_SELECT_CAMERA aside).
ParamInt(ps, viewerActive, capturing, paramId) ==
    CASE paramId = "PARAM_PREVIEW_AUTO_EXPOSURE_ON" ->
            BoolToInt(ps.preview.autoExposure)
      [] paramId = "PARAM_PREVIEW_AUTO_GAIN_ON" -> BoolToInt(ps.preview.autoGain)
      [] paramId = "PARAM_PREVIEW_AUTO_WB_ON" -> BoolToInt(ps.preview.autoWB)
      [] paramId = "PARAM_PREVIEW_AUTO_FOCUS_ON" -> BoolToInt(ps.preview.autoFocus)
      [] paramId = "PARAM_BURST_SIZE" -> ps.pendingImagesCount
      [] paramId = "PARAM_VIEWER_ACTIVE" -> BoolToInt(viewerActive)
      [] paramId = "PARAM_TAKE_PICTURE" -> BoolToInt(capturing)
      [] OTHER -> -1

\* getParamInt: pthread_mutex_lock( &sAppData->previousStateLock ).
getParamInt_lock(paramId) ==
    /\ upc = "idle"
    /\ previousStateLock = "free"
    /\ previousStateLock' = "ui"
    /\ upc' = "getParamInt"
    /\ uarg' = [param |-> paramId]
    /\ UNCHANGED <<renderingThreadLock, isCapturing, previewBuffer,
                   previewBufferTexId, uobs, urval, wqvars, thvars, tbvars,
                   aiwvars, appvars>>

\* getParamInt: the switch, pthread_mutex_unlock, return rval.
getParamInt_return ==
    /\ upc = "getParamInt"
    /\ urval' = Append(urval,
                   [op |-> "getParamInt", param |-> uarg.param,
                    val |-> ParamInt(previousState, isViewerActive, isCapturing,
                                     uarg.param)])
    /\ previousStateLock' = pthread_mutex_unlock(previousStateLock)
    /\ upc' = "idle"
    /\ UNCHANGED <<renderingThreadLock, isCapturing, previewBuffer,
                   previewBufferTexId, uarg, uobs, wqvars, thvars, tbvars,
                   aiwvars, appvars>>

\* getParamIntArray: pthread_mutex_lock( &sAppData->previousStateLock ).
getParamIntArray_lock(paramId) ==
    /\ upc = "idle"
    /\ previousStateLock = "free"
    /\ previousStateLock' = "ui"
    /\ upc' = "getParamIntArray"
    /\ uarg' = [param |-> paramId]
    /\ UNCHANGED <<renderingThreadLock, isCapturing, previewBuffer,
                   previewBufferTexId, uobs, urval, wqvars, thvars, tbvars,
                   aiwvars, appvars>>

\* getParamIntArray: every id takes the default case; pthread_mutex_unlock.
getParamIntArray_return ==
    /\ upc = "getParamIntArray"
    /\ urval' = Append(urval, [op |-> "getParamIntArray", param |-> uarg.param])
    /\ previousStateLock' = pthread_mutex_unlock(previousStateLock)
    /\ upc' = "idle"
    /\ UNCHANGED <<renderingThreadLock, isCapturing, previewBuffer,
                   previewBufferTexId, uarg, uobs, wqvars, thvars, tbvars,
                   aiwvars, appvars>>

\* getParamFloat takes no lock: it reads the flag of its case ...
getParamFloat_flag(paramId) ==
    /\ upc = "idle"
    /\ upc' = "getParamFloat"
    /\ uarg' = [param |-> paramId]
    /\ uobs' = [flag |-> ParamFloatFlag(previousState, paramId),
                seen |-> {ParamFloat(previousState, paramId)}
                         \cup (IF dpc = "memcpy_rest"
                               THEN {ParamFloat(m_currentState, paramId)}
                               ELSE {})]
    /\ UNCHANGED <<previousStateLock, renderingThreadLock, isCapturing,
                   previewBuffer, previewBufferTexId, urval, wqvars, thvars,
                   tbvars, aiwvars, appvars>>

\* ... and then the value the flag selects, and returns it.
getParamFloat_value ==
    /\ upc = "getParamFloat"
    /\ urval' = Append(urval,
                   [op |-> "getParamFloat", param |-> uarg.param,
                    val |-> ParamFloatValue(previousState, uarg.param, uobs.flag),
                    seen |-> uobs.seen])
    /\ upc' = "idle"
    /\ UNCHANGED <<previousStateLock, renderingThreadLock, isCapturing,
                   previewBuffer, previewBufferTexId, uarg, uobs, wqvars,
                   thvars, tbvars, aiwvars, appvars>>

\* getParamFloatArray: pthread_mutex_lock( &sAppData->previousStateLock ).
getParamFloatArray_lock(paramId, pictureId, arraySize) ==
    /\ upc = "idle"
    /\ previousStateLock = "free"
    /\ previousStateLock' = "ui"
    /\ upc' = "getParamFloatArray"
    /\ uarg' = [param |-> paramId, pictureId |-> pictureId,
                arraySize |-> arraySize]
    /\ UNCHANGED <<renderingThreadLock, isCapturing, previewBuffer,
                   previewBufferTexId, uobs, urval, wqvars, thvars, tbvars,
                   aiwvars, appvars>>

\* getParamFloatArray, switch ( paramId ): does the call reach
\* pthread_mutex_unlock?  The two size checks return before it.
ReachesUnlock(paramId, arraySize) ==
    CASE paramId = "PARAM_SHOT" -> arraySize = 5
      [] paramId = "PARAM_LUMINANCE_HISTOGRAM" -> arraySize = HISTOGRAM_SIZE
      [] OTHER -> TRUE

\* getParamFloatArray, switch ( paramId ): what the array holds afterwards
\* (<<>>: left as it was).
ParamFloatArray(ps, paramId, pictureId, arraySize) ==
    CASE paramId = "PARAM_SHOT" /\ arraySize = 5 ->
            LET sp == ps.pendingImages[pictureId] IN
            <<sp.exposure, sp.focus, sp.gain, sp.wb, sp.flashOn>>
      [] paramId = "PARAM_LUMINANCE_HISTOGRAM" /\ arraySize = HISTOGRAM_SIZE ->
            <<ps.preview.histogramData>>
      [] OTHER -> <<>>

\* case PARAM_SHOT of getParamFloatArray reads
\* previousState.pendingImages[pictureId] outside the array.
ShotReadOutside(arg) ==
    arg.param = "PARAM_SHOT" /\ arg.arraySize = 5
        /\ arg.pictureId \notin PendingSlots

\* What a read outside the array may find.
Garbage == {0, 1}

\* getParamFloatArray: the switch and the end of the call.  A read outside
\* pendingImages hands back whatever lies there.
getParamFloatArray_return ==
    /\ upc = "getParamFloatArray"
    /\ \E g \in IF ShotReadOutside(uarg) THEN Garbage ELSE {0} :
          urval' = Append(urval,
                      [op |-> "getParamFloatArray", param |-> uarg.param,
                       size |-> uarg.arraySize,
                       val |-> IF ShotReadOutside(uarg) THEN <<g, g, g, g, g>>
                               ELSE ParamFloatArray(previousState, uarg.param,
                                                    uarg.pictureId,
                                                    uarg.arraySize)])
    /\ previousStateLock' = IF ReachesUnlock(uarg.param, uarg.arraySize)
                            THEN pthread_mutex_unlock(previousStateLock)
                            ELSE previousStateLock
    /\ upc' = "idle"
    /\ UNCHANGED <<renderingThreadLock, isCapturing, previewBuffer,
                   previewBufferTexId, uarg, uobs, wqvars, thvars, tbvars,
                   aiwvars, appvars>>

\* The names glGenTextures hands out.
TextureNames == {1, 2}

\* lockViewerTexture: with a texture already there it is returned at once;
\* else pthread_mutex_lock( &sAppData->renderingThreadLock ).
lockViewerTexture_lock ==
    /\ upc = "idle"
    /\ IF previewBufferTexId >= 0
       THEN /\ urval' = Append(urval, [op |-> "lockViewerTexture",
                                       val |-> previewBufferTexId])
            /\ UNCHANGED <<renderingThreadLock, upc>>
       ELSE /\ renderingThreadLock = "free"
            /\ renderingThreadLock' = "ui"
            /\ upc' = "lockViewerTexture"
            /\ urval' = urval
    /\ UNCHANGED <<previousStateLock, isCapturing, previewBuffer,
                   previewBufferTexId, uarg, uobs, wqvars, thvars, tbvars,
                   aiwvars, appvars>>

\* lockViewerTexture with the lock and a camera: the preview buffer is
\* created if there is none, swapFrontBuffer(), a texture tid is made of the
\* front buffer; pthread_mutex_unlock.
lockViewerTexture_return(tid) ==
    /\ upc = "lockViewerTexture"
    /\ LET pb == IF previewBuffer = <<>>
                 THEN PreviewBuffer(<<"b0", "b1", "b2">>) ELSE previewBuffer[1]
       IN  previewBuffer' = <<TB_swapFrontBuffer(pb).b>>
    /\ previewBufferTexId' = tid
    /\ urval' = Append(urval, [op |-> "lockViewerTexture", val |-> tid])
    /\ renderingThreadLock' = pthread_mutex_unlock(renderingThreadLock)
    /\ upc' = "idle"
    /\ UNCHANGED <<previousStateLock, isCapturing, uarg, uobs, wqvars, thvars,
                   tbvars, aiwvars, appvars>>

\* unlockViewerTexture.
unlockViewerTexture ==
    /\ upc = "idle"
    /\ previewBufferTexId' = IF previewBufferTexId >= 0 THEN -1
                             ELSE previewBufferTexId
    /\ urval' = Append(urval, [op |-> "unlockViewerTexture"])
    /\ UNCHANGED <<previousStateLock, renderingThreadLock, isCapturing,
                   previewBuffer, upc, uarg, uobs, wqvars, thvars, tbvars,
                   aiwvars, appvars>>

\* ============================================================ specifications
InitWQ ==
    /\ wq = WorkQueue
    /\ cpc = "idle"
    /\ elem = "none"
    /\ sink = <<>>
    /\ ret = [op |-> "none", val |-> "void"]
    /\ ub = FALSE
    /\ produced = <<>>
    /\ delivered = <<>>
    /\ overlap = 0

InitTB ==
    /\ \E buffers \in BufferArrays :
          /\ tsbuf = TSTripleBuffer(buffers)
          /\ tbuf \in {TripleBuffer(buffers),
                       PreviewBuffer(<<buffers[2], buffers[1], buffers[3]>>)}
    /\ ts_rval = [op |-> "none", buf |-> "none"]
    /\ tb_rval = [op |-> "none", buf |-> "none"]
    /\ content = [b \in Buffers |-> 0]
    /\ nfills = 0
    /\ ppc = "fill"
    /\ published = 0
    /\ sinceFront = 0
    /\ lastN = 0
    /\ shown = 0
    /\ held = "none"

\* The storage may hold descriptors of earlier runs.
InitAIW ==
    /\ m_queue = WorkQueue
    /\ sFreeId = 0
    /\ heap = <<>>
    /\ nalloc = 0
    /\ cur = NULL
    /\ wpc = "loop"
    /\ imageset = NULL
    /\ wi = 0
    /\ fs \in SUBSET {XmlName(id) : id \in 0..MaxFileId}
    /\ wlog = <<>>
    /\ pushed = <<>>
    /\ dtor = "none"

\* FCamAppThread before its loop: no writer, a camera whose state the
\* constructor zeroed, previousState a copy of it, the viewer inactive
\* (Java_com_nvidia_fcamerapro_FCamInterface_init); the two mutexes free, no
\* capture, no preview buffer and no texture (JNI_OnLoad); no call of the UI
\* thread under way.
InitAppWith(cs, pb) ==
    /\ requestQueue = WorkQueue
    /\ taskQueue = <<>>
    /\ dpc = "drain"
    /\ writer = NULL
    /\ m_outputDirPrefix = <<>>
    /\ m_sensor = [streaming |-> FALSE, queue |-> <<>>]
    /\ m_currentState = cs
    /\ previousState = CaptureState
    /\ isViewerActive = FALSE
    /\ shot = [exposure |-> 0, gain |-> 0, whiteBalance |-> 0]
    /\ cycled = FALSE
    /\ jni = <<>>
    /\ submitted = <<>>
    /\ applied = <<>>
    /\ touchAction = "TOUCH_ACTION_NONE"
    /\ touchX = 0
    /\ touchY = 0
    /\ touched = <<>>
    /\ batch = 0
    /\ m_currentMode = "Back"
    /\ previousStateLock = "free"
    /\ renderingThreadLock = "free"
    /\ isCapturing = FALSE
    /\ previewBuffer = pb
    /\ previewBufferTexId = -1
    /\ upc = "idle"
    /\ uarg = [param |-> "none"]
    /\ uobs = [flag |-> FALSE, seen |-> {}]
    /\ urval = <<>>

InitApp == InitAppWith(CaptureState, <<>>)

\* The same once the UI thread has set up a burst of two pictures, the first
\* with the flash, and has locked and unlocked the viewer texture, which
\* makes the preview buffer.
BurstState ==
    [CaptureState EXCEPT
        !.pendingImagesCount = 2,
        !.pendingImages[0] = [exposure |-> 1, focus |-> 1, gain |-> 1, wb |-> 1,
                              flashOn |-> 1],
        !.pendingImages[1] = [exposure |-> 2, focus |-> 2, gain |-> 2, wb |-> 2,
                              flashOn |-> 0]]

InitCap == InitAppWith(BurstState, <<PreviewBuffer(<<"b0", "b1", "b2">>)>>)

\* One fixed start of the triple buffers and of the writer, for the
\* specifications in which they take no step.
IdleTB ==
    /\ InitTB
    /\ tsbuf = TSTripleBuffer(<<"b0", "b1", "b2">>)

IdleAIW ==
    /\ InitAIW
    /\ fs = {}

\* A plane of w x h pixels of value v, and one whose pixels count up from v.
UniformPlane(w, h, v) == [k \in 0..(w * h - 1) |-> v]
RampPlane(w, h, v) == [k \in 0..(w * h - 1) |-> (v + k) % (UCHAR_MAX + 1)]

\* Before a call of DownsampleChannel: a source plane that holds the filter
\* window, and a destination plane still to be filled.
InitTH ==
    /\ srcWidth \in THUMBNAIL_BLUR_RADIUS..MaxSrcSide
    /\ srcHeight \in THUMBNAIL_BLUR_RADIUS..MaxSrcSide
    /\ dstWidth \in 1..MaxDstSide
    /\ dstHeight \in 1..MaxDstSide
    /\ \E v \in 0..UCHAR_MAX :
          src \in {UniformPlane(srcWidth, srcHeight, v),
                   RampPlane(srcWidth, srcHeight, v)}
    /\ dest = <<>>
    /\ thpc = "call"
    /\ oob = FALSE

IdleTH ==
    /\ srcWidth = THUMBNAIL_BLUR_RADIUS
    /\ srcHeight = THUMBNAIL_BLUR_RADIUS
    /\ dstWidth = 1
    /\ dstHeight = 1
    /\ src = UniformPlane(srcWidth, srcHeight, 0)
    /\ dest = <<>>
    /\ thpc = "done"
    /\ oob = FALSE

Init == InitWQ /\ InitTB /\ InitAIW /\ InitApp /\ InitTH

NextWQ ==
    \/ \E t \in Producers, v \in Values : Produce(t, v)
    \/ ConsumeBlocking
    \/ SemWait
    \/ ConsumeNonBlocking
    \/ ConsumeCS
    \/ ConsumeAll

\* The consumer of NextWQ and a second thread that calls consumeAll.
NextWQ2 ==
    \/ NextWQ
    \/ ConsumeAllConcurrent

NextTB ==
    \/ Fill
    \/ SwapBack
    \/ SwapFront
    \/ GetFront

NextAIW ==
    \/ \E id \in 0..MaxFileId : SetFreeFileId(id)
    \/ NewImageSet
    \/ \E valid \in BOOLEAN : Add(valid)
    \/ Push
    \/ W_Consume
    \/ W_SemWait
    \/ W_ConsumeCS
    \/ W_Dump
    \/ W_DumpFrame

\* The life of one writer up to its destruction, on an empty storage.
NextDtor ==
    \/ NewImageSet
    \/ \E valid \in BOOLEAN : Add(valid)
    \/ Push
    \/ PushNull
    \/ Destroy
    \/ Join
    \/ W_Consume
    \/ W_SemWait
    \/ W_ConsumeCS
    \/ W_Dump
    \/ W_DumpFrame

\* The requests the UI thread sends around a capture.
CaptureRequests ==
    {ParamSetRequest("PARAM_OUTPUT_DIRECTORY", <<"d">>),
     ParamSetRequest("PARAM_BURST_SIZE", 0),
     ParamSetRequest("PARAM_BURST_SIZE", 2),
     ParamSetRequest("PARAM_OUTPUT_FILE_ID", 0),
     ParamSetRequest("PARAM_TAKE_PICTURE", 0),
     ParamSetRequest("PARAM_TAKE_PICTURE", 1)}

\* The values the UI thread sets preview parameters to, and the values the
\* estimators come up with.
UserValues == {1}
Estimates  == {[exposure |-> 2, gain |-> 2, wb |-> 2, focus |-> 2, histogram |-> 2]}

\* The requests the UI thread sends about the preview.
PreviewRequests ==
    {ParamSetRequest(id, d) :
        id \in {"PARAM_PREVIEW_AUTO_EXPOSURE_ON", "PARAM_PREVIEW_AUTO_FOCUS_ON",
                "PARAM_PREVIEW_AUTO_GAIN_ON", "PARAM_PREVIEW_AUTO_WB_ON"},
        d \in {0, 1}}
    \cup {ParamSetRequest(id, v) :
            id \in {"PARAM_PREVIEW_EXPOSURE", "PARAM_PREVIEW_FOCUS",
                    "PARAM_PREVIEW_GAIN", "PARAM_PREVIEW_WB"},
            v \in UserValues}
    \cup {ParamSetRequest("PARAM_VIEWER_ACTIVE", 1)}

\* The UI thread queues one of its first MaxRequests requests.
SubmitCapture(c) ==
    /\ Len(UIRequests) < MaxRequests
    /\ Submit(c)

\* UI thread, dispatch thread and writer thread around a capture.
NextApp ==
    \/ \E c \in CaptureRequests : SubmitCapture(c)
    \/ D_ConsumeAll
    \/ D_Task
    \/ D_Shots
    \/ \E valid \in BOOLEAN : D_Add(valid)
    \/ D_Push
    \/ D_EndTasks
    \/ W_Consume
    \/ W_SemWait
    \/ W_ConsumeCS
    \/ W_Dump
    \/ W_DumpFrame

\* The requests the UI thread sends about the preview exposure.
ExposureRequests ==
    {ParamSetRequest("PARAM_PREVIEW_AUTO_EXPOSURE_ON", 0),
     ParamSetRequest("PARAM_PREVIEW_AUTO_EXPOSURE_ON", 1),
     ParamSetRequest("PARAM_PREVIEW_EXPOSURE", 1),
     ParamSetRequest("PARAM_VIEWER_ACTIVE", 1)}

\* The UI thread queues one of its first MaxPreviewRequests requests.
SubmitPreview(c) ==
    /\ Len(UIRequests) < MaxPreviewRequests
    /\ Submit(c)

\* The UI thread queues one of its first MaxExposureRequests requests.
SubmitExposure(c) ==
    /\ Len(UIRequests) < MaxExposureRequests
    /\ Submit(c)

\* UI thread and dispatch thread around the preview.
NextPrev ==
    \/ \E c \in PreviewRequests : SubmitPreview(c)
    \/ D_ConsumeAll
    \/ D_Task
    \/ D_EndTasks
    \/ \E est \in Estimates, afBusy \in BOOLEAN : D_Preview(est, afBusy)

\* UI thread and dispatch thread around the preview exposure.
NextExp ==
    \/ \E c \in ExposureRequests : SubmitExposure(c)
    \/ D_ConsumeAll
    \/ D_Task
    \/ D_EndTasks
    \/ \E est \in Estimates, afBusy \in BOOLEAN : D_Preview(est, afBusy)

NextTH == Downsample

\* The commands the UI thread sends about the preview exposure while it
\* polls the state.
PollRequests ==
    {ParamSetRequest("PARAM_PREVIEW_AUTO_EXPOSURE_ON", 1),
     ParamSetRequest("PARAM_PREVIEW_EXPOSURE", 1),
     ParamSetRequest("PARAM_VIEWER_ACTIVE", 1)}

\* The UI thread queues one of its first MaxPollRequests requests.
SubmitPoll(c) ==
    /\ Len(UIRequests) < MaxPollRequests
    /\ Submit(c)

\* The UI thread begins one of its first MaxPolls calls that read the state.
PollCall ==
    /\ Len(urval) < MaxPolls
    /\ \/ \E paramId \in {"PARAM_PREVIEW_AUTO_EXPOSURE_ON", "PARAM_TAKE_PICTURE"} :
             getParamInt_lock(paramId)
       \/ getParamIntArray_lock("PARAM_SHOT")
       \/ getParamFloat_flag("PARAM_PREVIEW_EXPOSURE")
       \/ \E paramId \in {"PARAM_SHOT", "PARAM_LUMINANCE_HISTOGRAM"},
             arraySize \in {5, HISTOGRAM_SIZE} :
             getParamFloatArray_lock(paramId, 0, arraySize)
       \/ lockViewerTexture_lock
       \/ unlockViewerTexture

\* The call returns.
PollReturn ==
    \/ getParamInt_return
    \/ getParamIntArray_return
    \/ getParamFloat_value
    \/ getParamFloatArray_return
    \/ \E tid \in TextureNames : lockViewerTexture_return(tid)

\* The preview cycle step by step.
PreviewCycle ==
    \/ D_Stream
    \/ \E est \in Estimates, afBusy \in BOOLEAN : D_GetFrame(est, afBusy)
    \/ D_LockRendering
    \/ D_Publish
    \/ D_LockPrevious
    \/ D_Memcpy
    \/ D_Unlock

\* The requests the UI thread sends while the user touches the viewer: the
\* touch points are given as fractions of the preview image.
TouchRequests ==
    {ArrayRequest("PARAM_FOCUS_ON_TOUCH", 0, <<0, 1>>),
     ArrayRequest("PARAM_WB_ON_TOUCH", 0, <<1, 0>>),
     ParamSetRequest("PARAM_PREVIEW_AUTO_FOCUS_ON", 1),
     ParamSetRequest("PARAM_PREVIEW_WB", 1),
     ParamSetRequest("PARAM_VIEWER_ACTIVE", 0),
     ParamSetRequest("PARAM_VIEWER_ACTIVE", 1)}

\* The UI thread queues one of its first MaxTouchRequests requests.
SubmitTouch(c) ==
    /\ Len(UIRequests) < MaxTouchRequests
    /\ Submit(c)

\* UI thread and dispatch thread while the user touches the viewer.
NextTouch ==
    \/ \E c \in TouchRequests : SubmitTouch(c)
    \/ D_ConsumeAll
    \/ D_Task
    \/ D_EndTasks
    \/ PreviewCycle

\* The requests the UI thread sends when the user switches the camera.
CameraRequests ==
    {ParamSetRequest("PARAM_SELECT_CAMERA", SELECT_FRONT_CAMERA),
     ParamSetRequest("PARAM_SELECT_CAMERA", SELECT_BACK_CAMERA),
     ParamSetRequest("PARAM_SELECT_CAMERA", SELECT_STEREO_CAMERA),
     ParamSetRequest("PARAM_BURST_SIZE", 2),
     ParamSetRequest("PARAM_VIEWER_ACTIVE", 1)}

\* The UI thread queues one of its first MaxCameraRequests requests.
SubmitCamera(c) ==
    /\ Len(UIRequests) < MaxCameraRequests
    /\ Submit(c)

\* The renderer begins one of its first MaxViewerCalls calls.
ViewerCall ==
    /\ Len(urval) < MaxViewerCalls
    /\ \/ lockViewerTexture_lock
       \/ unlockViewerTexture

\* lockViewerTexture returns.
ViewerReturn == \E tid \in TextureNames : lockViewerTexture_return(tid)

\* The renderer, the UI thread and the dispatch thread while the user
\* switches the camera.
NextCam ==
    \/ \E c \in CameraRequests : SubmitCamera(c)
    \/ ViewerCall
    \/ ViewerReturn
    \/ D_ConsumeAll
    \/ D_Task
    \/ D_SelectLock
    \/ D_SelectCamera
    \/ D_EndTasks
    \/ PreviewCycle

\* The requests the UI thread sends to set up and take a burst; the burst
\* sizes and the picture ids are those the user interface offers and the
\* first ones beyond them.
ShotRequests ==
    {ParamSetRequest("PARAM_BURST_SIZE", n) :
        n \in {2, FCAM_MAX_PICTURES_PER_SHOT + 1}}
    \cup {ShotRequest(pictureId, <<1, 1, 1, 1, 1>>) :
            pictureId \in {0, FCAM_MAX_PICTURES_PER_SHOT}}
    \cup {ParamSetRequest("PARAM_OUTPUT_DIRECTORY", <<"d">>),
          ParamSetRequest("PARAM_TAKE_PICTURE", 1)}

\* The UI thread queues one of its first MaxShotRequests requests.
SubmitShot(c) ==
    /\ Len(UIRequests) < MaxShotRequests
    /\ Submit(c)

\* The UI thread begins one of its first MaxShotReads calls of
\* getParamFloatArray( PARAM_SHOT | pictureId << 16, float[5] ).
ShotRead ==
    /\ Len(urval) < MaxShotReads
    /\ \E pictureId \in {0, FCAM_MAX_PICTURES_PER_SHOT} :
          getParamFloatArray_lock("PARAM_SHOT", pictureId, 5)

\* UI thread and dispatch thread around the pending shots, the viewer off.
NextShot ==
    \/ \E c \in ShotRequests : SubmitShot(c)
    \/ ShotRead
    \/ getParamFloatArray_return
    \/ D_ConsumeAll
    \/ D_Task
    \/ D_Shots
    \/ \E valid \in BOOLEAN : D_Add(valid)
    \/ D_Push
    \/ D_EndTasks

\* The dispatch thread with the viewer, and the UI thread that sends
\* commands and polls the state.
NextPoll ==
    \/ \E c \in PollRequests : SubmitPoll(c)
    \/ PollCall
    \/ PollReturn
    \/ D_ConsumeAll
    \/ D_Task
    \/ D_EndTasks
    \/ PreviewCycle

\* The commands the UI thread sends for a capture out of the preview.
LockRequests ==
    {ParamSetRequest("PARAM_OUTPUT_DIRECTORY", <<"d">>),
     ParamSetRequest("PARAM_VIEWER_ACTIVE", 1),
     ParamSetRequest("PARAM_TAKE_PICTURE", 1)}

\* The UI thread queues one of its first MaxLockRequests requests.
SubmitLock(c) ==
    /\ Len(UIRequests) < MaxLockRequests
    /\ Submit(c)

\* The UI thread begins one of its first MaxPolls calls that take a lock.
LockCall ==
    /\ Len(urval) < MaxPolls
    /\ \/ getParamInt_lock("PARAM_TAKE_PICTURE")
       \/ lockViewerTexture_lock

\* The call returns.
LockReturn ==
    \/ getParamInt_return
    \/ \E tid \in TextureNames : lockViewerTexture_return(tid)

\* Preview and capture step by step, and a UI thread that takes the locks.
NextLock ==
    \/ \E c \in LockRequests : SubmitLock(c)
    \/ LockCall
    \/ LockReturn
    \/ D_ConsumeAll
    \/ D_Task
    \/ D_Discard
    \/ D_Shots
    \/ \E valid \in BOOLEAN : D_Add(valid)
    \/ D_Push
    \/ D_EndTasks
    \/ PreviewCycle

\* The commands the UI thread sends around a burst capture.
BurstRequests ==
    {ParamSetRequest("PARAM_OUTPUT_DIRECTORY", <<"d">>),
     ParamSetRequest("PARAM_VIEWER_ACTIVE", 0),
     ParamSetRequest("PARAM_VIEWER_ACTIVE", 1),
     ParamSetRequest("PARAM_TAKE_PICTURE", 0),
     ParamSetRequest("PARAM_TAKE_PICTURE", 1)}

\* The UI thread queues one of its first MaxBurstRequests requests.
SubmitBurst(c) ==
    /\ Len(UIRequests) < MaxBurstRequests
    /\ Submit(c)

\* UI thread and dispatch thread around a burst capture, the viewer on or
\* off.
NextCap ==
    \/ \E c \in BurstRequests : SubmitBurst(c)
    \/ D_ConsumeAll
    \/ D_Task
    \/ D_Discard
    \/ D_Shots
    \/ \E valid \in BOOLEAN : D_Add(valid)
    \/ D_Push
    \/ D_EndTasks
    \/ \E est \in Estimates, afBusy \in BOOLEAN : D_Preview(est, afBusy)

\* The commands the UI thread sends with setParamInt and setParamString:
\* two output directories, ids the dispatch switch has no case for, one it
\* has an empty case for, and a burst size.
CommandRequests ==
    {ParamSetRequest("PARAM_OUTPUT_DIRECTORY", <<"a">>),
     ParamSetRequest("PARAM_OUTPUT_DIRECTORY", <<"b", "/">>),
     ParamSetRequest("PARAM_CAPTURE_FPS", 1),
     ParamSetRequest("PARAM_LUMINANCE_HISTOGRAM", 1),
     ParamSetRequest("PARAM_RESOLUTION", 1),
     ParamSetRequest("PARAM_VIEWER_ACTIVE", 0),
     ParamSetRequest("PARAM_BURST_SIZE", 1)}

\* The ids, picture ids and arrays the UI thread calls setParamFloatArray
\* with.
ArrayIds == {"PARAM_SHOT", "PARAM_FOCUS_ON_TOUCH", "PARAM_WB_ON_TOUCH",
             "PARAM_LUMINANCE_HISTOGRAM"}
PictureIds == {0, 1}
Arrays == {<<1, 1>>, <<1, 1, 1, 1, 1>>}

\* The calls the UI thread has made: the requests it queued itself and the
\* calls that returned something.
UICalls ==
    Cardinality({k \in DOMAIN submitted :
                    /\ submitted[k].m_id # "PARAM_PRIV_FS_CHANGED"
                    /\ "m_pictureId" \notin DOMAIN submitted[k]})
    + Len(urval)

\* The UI thread makes one of its first MaxCommands calls.
SubmitCommand(c) ==
    /\ UICalls < MaxCommands
    /\ Submit(c)

SubmitArray(paramId, pictureId, value) ==
    /\ UICalls < MaxCommands
    /\ SetParamFloatArray(paramId, pictureId, value)

\* UI thread and dispatch thread, the viewer off.
NextCmd ==
    \/ \E c \in CommandRequests : SubmitCommand(c)
    \/ \E paramId \in ArrayIds, pictureId \in PictureIds, value \in Arrays :
          SubmitArray(paramId, pictureId, value)
    \/ D_ConsumeAll
    \/ D_Task
    \/ D_EndTasks


Next ==
    NextWQ \/ NextWQ2 \/ NextTB \/ NextAIW \/ NextDtor \/ NextApp \/ NextPrev \/ NextExp
    \/ NextTH \/ NextCmd \/ NextCap \/ NextPoll \/ NextLock \/ NextTouch
    \/ NextCam \/ NextShot

\* One WorkQueue with its producers and its consumer.
InitSpecWQ == InitWQ /\ IdleTB /\ IdleAIW /\ InitApp /\ IdleTH
SpecWQ == InitSpecWQ /\ [][NextWQ]_vars

\* The consumer thread is scheduled fairly.
FairSpecWQ == SpecWQ /\ WF_vars(SemWait) /\ WF_vars(ConsumeCS)

\* The two triple buffers.
\* One WorkQueue with its producers, its consumer and a second thread that
\* calls consumeAll.
InitSpecWQ2 == InitWQ /\ IdleTB /\ IdleAIW /\ InitApp /\ IdleTH
SpecWQ2 == InitSpecWQ2 /\ [][NextWQ2]_vars

InitSpecTB == InitWQ /\ InitTB /\ IdleAIW /\ InitApp /\ IdleTH
SpecTB == InitSpecTB /\ [][NextTB]_vars

\* The image writer, its client and its worker.
InitSpecAIW == InitWQ /\ IdleTB /\ InitAIW /\ InitApp /\ IdleTH
SpecAIW == InitSpecAIW /\ [][NextAIW]_vars

\* A writer that is destroyed in the end.
InitSpecDtor == InitWQ /\ IdleTB /\ IdleAIW /\ InitApp /\ IdleTH
SpecDtor == InitSpecDtor /\ [][NextDtor]_vars

\* The worker thread is scheduled fairly, and so is a destructor waiting in
\* pthread_join.
FairSpecDtor ==
    /\ SpecDtor
    /\ WF_vars(W_Consume) /\ WF_vars(W_SemWait) /\ WF_vars(W_ConsumeCS)
    /\ WF_vars(W_Dump) /\ WF_vars(W_DumpFrame) /\ WF_vars(Join)

\* A capture: UI thread, dispatch thread, writer thread.
InitSpecApp == InitWQ /\ IdleTB /\ IdleAIW /\ InitApp /\ IdleTH
SpecApp == InitSpecApp /\ [][NextApp]_vars

\* The dispatch thread and the writer thread are scheduled fairly.
FairSpecApp ==
    /\ SpecApp
    /\ WF_vars(D_ConsumeAll) /\ WF_vars(D_Task) /\ WF_vars(D_EndTasks)
    /\ WF_vars(D_Shots)
    /\ WF_vars(\E valid \in BOOLEAN : D_Add(valid)) /\ WF_vars(D_Push)
    /\ WF_vars(W_Consume) /\ WF_vars(W_SemWait) /\ WF_vars(W_ConsumeCS)
    /\ WF_vars(W_Dump) /\ WF_vars(W_DumpFrame)

\* The preview: UI thread and dispatch thread.
InitSpecPrev == InitWQ /\ IdleTB /\ IdleAIW /\ InitApp /\ IdleTH
SpecPrev == InitSpecPrev /\ [][NextPrev]_vars

\* The preview exposure: UI thread and dispatch thread.
InitSpecExp == InitWQ /\ IdleTB /\ IdleAIW /\ InitApp /\ IdleTH
SpecExp == InitSpecExp /\ [][NextExp]_vars

\* One call of DownsampleChannel.
InitSpecTH == InitWQ /\ IdleTB /\ IdleAIW /\ InitApp /\ InitTH
SpecTH == InitSpecTH /\ [][NextTH]_vars

\* Touches on the viewer: UI thread and dispatch thread.
InitSpecTouch == InitWQ /\ IdleTB /\ IdleAIW /\ InitApp /\ IdleTH
SpecTouch == InitSpecTouch /\ [][NextTouch]_vars

\* Camera switches: renderer, UI thread and dispatch thread.
InitSpecCam == InitWQ /\ IdleTB /\ IdleAIW /\ InitApp /\ IdleTH
SpecCam == InitSpecCam /\ [][NextCam]_vars

\* The pending shots: UI thread and dispatch thread.
InitSpecShot == InitWQ /\ IdleTB /\ IdleAIW /\ InitApp /\ IdleTH
SpecShot == InitSpecShot /\ [][NextShot]_vars

\* Commands while the viewer is off: UI thread and dispatch thread.
InitSpecCmd == InitWQ /\ IdleTB /\ IdleAIW /\ InitApp /\ IdleTH
SpecCmd == InitSpecCmd /\ [][NextCmd]_vars

\* A burst capture with the viewer on or off: UI thread and dispatch thread.
InitSpecCap == InitWQ /\ IdleTB /\ IdleAIW /\ InitCap /\ IdleTH
SpecCap == InitSpecCap /\ [][NextCap]_vars

\* Polling during the preview: UI thread and dispatch thread.
InitSpecPoll == InitWQ /\ IdleTB /\ IdleAIW /\ InitApp /\ IdleTH
SpecPoll == InitSpecPoll /\ [][NextPoll]_vars

\* Preview and capture with the locks: UI thread and dispatch thread.
InitSpecLock == InitWQ /\ IdleTB /\ IdleAIW /\ InitCap /\ IdleTH
SpecLock == InitSpecLock /\ [][NextLock]_vars

Spec == Init /\ [][Next]_vars

\* =================================================================== claims
\* Everything the consumer has been handed, in the order it got it.
Received == Flatten([k \in 1..Len(delivered) |-> delivered[k].items])

\* C1: with any interleaving of producers and one consumer, the items the
\* consumer has received so far, followed by the items still queued, are
\* the produced items in the order of the producers' critical sections:
\* none skipped, duplicated or reordered, and front() never ran on an empty
\* queue.
C1_Fifo ==
    /\ Received \o wq.m_queue = produced
    /\ ~ub

\* C1 witness: consume has delivered items of both producers, one after
\* the other, while a third item is still queued.
C1_Witness ==
    /\ Len(delivered) >= 2
    /\ delivered[1].op = "consume"
    /\ delivered[2].op = "consume"
    /\ delivered[1].items[1].by # delivered[2].items[1].by
    /\ Len(wq.m_queue) >= 1

\* C2: a consumeAll step hands the caller exactly the queue as it was when
\* the critical section began, leaves the queue empty and the semaphore at
\* 0, and after it every item produced so far has been delivered exactly
\* once, in order.
C2_ConsumeAll ==
    [][ConsumeAll =>
          /\ sink' = wq.m_queue
          /\ wq'.m_queue = <<>>
          /\ wq'.m_counterSem = 0
          /\ Received' = produced]_vars

\* C2 witness: two batches have been handed over, one of them with two
\* items, and a produce came between them.
C2_Witness ==
    /\ Len(delivered) = 2
    /\ delivered[1].op = "consumeAll"
    /\ delivered[2].op = "consumeAll"
    /\ Len(delivered[1].items) = 2
    /\ wq.m_queue = <<>>

\* C3: consume( elem, false ) returns false exactly when the queue holds no
\* item, and then changes neither the queue nor the semaphore and leaves
\* the caller outside the queue's code.
C3_NonBlocking ==
    [][ConsumeNonBlocking =>
          /\ (ret'.val = "false") <=> (wq.m_queue = <<>>)
          /\ (ret'.val = "false") => (wq' = wq /\ cpc' = "idle")]_vars

\* C3 witness: consumeAll drained a queue that held something, nothing was
\* produced since, and the non-blocking consume that followed returned false.
C3_Witness ==
    /\ ret = [op |-> "trywait", val |-> "false"]
    /\ sink # <<>>
    /\ delivered # <<>>
    /\ Last(delivered).op = "consumeAll"
    /\ Received = produced

\* C4: the blocking consume enters its critical section only on a queue
\* that holds an item, returns that queue's head and removes it; and a
\* consumer waiting in sem_wait is released and returns true once an item
\* has been produced, the consumer being scheduled fairly.
C4_Blocking ==
    /\ [](cpc = "cs" => wq.m_queue # <<>>)
    /\ [][ConsumeCS =>
             /\ wq.m_queue # <<>>
             /\ elem' = Head(wq.m_queue)
             /\ wq'.m_queue = Tail(wq.m_queue)
             /\ ret'.val = "true"]_vars
    /\ ((cpc = "sem_wait" /\ wq.m_queue # <<>>)
            ~> (cpc = "idle" /\ ret = [op |-> "consume", val |-> "true"]))

\* C4 witness: the consumer is suspended in sem_wait on an empty queue
\* after an earlier blocking consume returned an item.
C4_Witness ==
    /\ cpc = "sem_wait"
    /\ wq.m_queue = <<>>
    /\ wq.m_counterSem = 0
    /\ delivered # <<>>
    /\ Last(delivered).op = "consume"

\* The three roles of a triple buffer name the three buffers.
Roles(b) == {b.m_frontBuffer, b.m_backBuffer, b.m_spareBuffer}

\* C5: every swapFrontBuffer returns the buffer that holds the fill handed
\* over by the most recent swapBackBuffer (the Nth of N swapBackBuffer calls
\* made since the previous swapFrontBuffer), never an older fill, so no
\* earlier fill shows up in that call or in a later one.
C5_LatestFill ==
    [][SwapFront =>
          /\ content[ts_rval'.buf] = published
          /\ shown' = published
          /\ shown' >= shown]_vars

\* C5 witness: three fills were handed over, the last two with no
\* swapFrontBuffer in between, and swapFrontBuffer then returned the third.
C5_Witness ==
    /\ ts_rval.op = "swapFrontBuffer"
    /\ lastN >= 2
    /\ published = 3
    /\ shown = 3

\* C6: in every reachable state the front, back and spare pointers of both
\* triple buffers are the three buffers they were constructed over, each in
\* exactly one role.
C6_Permutation ==
    /\ Roles(tsbuf) = Buffers
    /\ Roles(tbuf) = Buffers

\* C6 witness: swaps on both sides have moved filled buffers into the front
\* and the spare role.
C6_Witness ==
    /\ content[tsbuf.m_frontBuffer] >= 2
    /\ content[tsbuf.m_spareBuffer] >= 1
    /\ content[tbuf.m_backBuffer] >= 1

\* The effect of one swapFrontBuffer that takes buffer object b to c and
\* returns r.
SwapFrontEffect(b, c, r) ==
    IF b.m_updateFrontBuffer
    THEN /\ c.m_frontBuffer = b.m_spareBuffer
         /\ c.m_spareBuffer = b.m_frontBuffer
         /\ c.m_backBuffer = b.m_backBuffer
         /\ c.m_updateFrontBuffer = FALSE
         /\ r = c.m_frontBuffer
    ELSE /\ c = b
         /\ r = b.m_frontBuffer

\* C7: swapFrontBuffer exchanges spare and front, clears the flag and
\* returns the new front when an update is pending, and returns the
\* current front and changes nothing otherwise; the call can always be
\* taken, whatever the producer has done.
C7_SwapFront ==
    /\ [](ENABLED SwapFront)
    /\ [][SwapFront =>
             /\ SwapFrontEffect(tsbuf, tsbuf', ts_rval'.buf)
             /\ SwapFrontEffect(tbuf, tbuf', tb_rval'.buf)]_vars

\* C7 witness: a swapFrontBuffer found no update pending after an earlier
\* one had promoted a filled buffer.
C7_Witness ==
    /\ ts_rval.op = "swapFrontBuffer"
    /\ lastN = 0
    /\ shown >= 1
    /\ ~tsbuf.m_updateFrontBuffer

\* C8: driven by the same calls from the same role assignment, the
\* TSTripleBuffer and the TripleBuffer return the same buffer at every call
\* and are in the same roles with the same flag.
C8_Equivalent ==
    /\ tsbuf = tbuf
    /\ ts_rval = tb_rval

\* C8 witness: both objects have gone through fills, swapBackBuffer and
\* swapFrontBuffer calls and the last call was a swapBackBuffer.
C8_Witness ==
    /\ ts_rval.op = "swapBackBuffer"
    /\ tb_rval.op = "swapBackBuffer"
    /\ nfills >= 3
    /\ shown >= 1

\* The worker's events of kind e, and the sets they are about, in order.
EventsOf(e) == SelectSeq(wlog, LAMBDA x : x.ev = e)
SetsOf(e) == [k \in 1..Len(EventsOf(e)) |-> EventsOf(e)[k].set]

\* The worker is between two sets.
WorkerIdle == wpc \in {"loop", "sem_wait"}

\* C9: the worker persists the pushed ImageSets in push order, whatever
\* their identifiers: the sets whose dumpToFileSystem has begun are a prefix
\* of the pushed ones, each begun once; every write and callback lies
\* between the begin of its own set and that set's delete, so one set is
\* finished and destroyed before the next begins; and once the worker is
\* idle on an empty queue every pushed set has been persisted and destroyed.
C9_PushOrder ==
    /\ Len(SetsOf("dump")) <= Len(pushed)
    /\ SetsOf("dump") = SubSeq(pushed, 1, Len(SetsOf("dump")))
    /\ \A k \in 1..Len(wlog) :
          /\ wlog[k].ev = "dump" =>
                (k = 1 \/ (wlog[k - 1].ev = "delete" /\ wlog[k - 1].set # wlog[k].set))
          /\ wlog[k].ev # "dump" =>
                (k > 1 /\ wlog[k - 1].set = wlog[k].set /\ wlog[k - 1].ev # "delete")
    /\ WorkerIdle => SetsOf("delete") = SetsOf("dump")
    /\ wpc = "dump_img" => SetsOf("dump") = Append(SetsOf("delete"), imageset)
    /\ (WorkerIdle /\ m_queue.m_queue = <<>>) => SetsOf("delete") = pushed

\* C9 witness: two sets with descriptors were pushed, the one with the
\* larger identifier first, and both have been written, in push order, and
\* destroyed.
C9_Witness ==
    /\ Len(pushed) = 2
    /\ heap[pushed[1]].m_fileId > heap[pushed[2]].m_fileId
    /\ SetsOf("xml") = pushed
    /\ SetsOf("delete") = pushed

\* The positions (counted from 0) of the valid frames of an ImageSet.
ValidPositions(is) == {i \in 0..(Len(is.m_frames) - 1) : is.m_frames[i + 1].valid}

\* The names in the worker's events of kind e about set p.
NamesWritten(e, p) ==
    {wlog[k].name : k \in {j \in 1..Len(wlog) : wlog[j].ev = e /\ wlog[j].set = p}}

\* C10: a descriptor is written only for a set with a valid frame; its image
\* count is the number of valid frames; it has one record per valid frame,
\* in set order, whose image and thumbnail names carry the set's id and the
\* frame's position in the set; and the image and thumbnail files written
\* for the set are those the descriptor names (all of them once the set is
\* finished).
C10_Descriptor ==
    \A k \in 1..Len(wlog) :
       wlog[k].ev = "xml" =>
          LET p   == wlog[k].set
              is  == heap[p]
              doc == wlog[k].doc
              n   == Len(doc.images)
              done == \E j \in 1..Len(wlog) : wlog[j].ev = "delete" /\ wlog[j].set = p
              imgs == {doc.images[j].name : j \in 1..n}
              thms == {doc.images[j].thumbnail : j \in 1..n}
          IN  /\ ValidPositions(is) # {}
              /\ wlog[k].name = XmlName(is.m_fileId)
              /\ doc.imagecount = Cardinality(ValidPositions(is))
              /\ n = doc.imagecount
              /\ {doc.images[j].name.i : j \in 1..n} = ValidPositions(is)
              /\ \A j \in 1..n :
                    /\ doc.images[j].name =
                          ImageName(is.m_fileId, doc.images[j].name.i, "jpg")
                    /\ doc.images[j].thumbnail =
                          ThumbnailName(is.m_fileId, doc.images[j].name.i)
                    /\ j < n => doc.images[j].name.i < doc.images[j + 1].name.i
              /\ NamesWritten("image", p) \subseteq imgs
              /\ NamesWritten("thumbnail", p) \subseteq thms
              /\ done => (NamesWritten("image", p) = imgs
                          /\ NamesWritten("thumbnail", p) = thms)

\* C10 witness: a set whose first frame is invalid and whose second frame
\* is valid has been written completely; its descriptor counts one image
\* and names it with index 1.
C10_Witness ==
    \E k \in 1..Len(wlog) :
       /\ wlog[k].ev = "xml"
       /\ heap[wlog[k].set].m_frames = <<[valid |-> FALSE], [valid |-> TRUE]>>
       /\ wlog[k].doc.imagecount = 1
       /\ wlog[k].doc.images[1].name.i = 1
       /\ \E j \in 1..Len(wlog) : wlog[j].ev = "delete" /\ wlog[j].set = wlog[k].set

\* The positions in wlog of the worker's events of kind e about set p.
EventsAt(e, p) == {k \in 1..Len(wlog) : wlog[k].ev = e /\ wlog[k].set = p}

\* C11: dumpToFileSystem calls back once right after the descriptor, before
\* any image of the set is written, and once right after each valid frame's
\* image and thumbnail, and at no other point: a set with k >= 1 valid
\* frames has had k + 1 callbacks when it is finished, a set without valid
\* frame none.
C11_Callbacks ==
    /\ \A k \in 1..Len(wlog) :
          /\ wlog[k].ev = "xml" =>
                /\ k < Len(wlog) /\ wlog[k + 1].ev = "callback"
                /\ \A j \in 1..k : ~(wlog[j].ev \in {"image", "thumbnail"}
                                      /\ wlog[j].set = wlog[k].set)
          /\ wlog[k].ev = "thumbnail" =>
                /\ k < Len(wlog) /\ wlog[k + 1].ev = "callback"
                /\ wlog[k - 1].ev = "image"
                /\ wlog[k - 1].name.i = wlog[k].name.i
                /\ heap[wlog[k].set].m_frames[wlog[k].name.i + 1].valid
          /\ wlog[k].ev = "callback" =>
                /\ wlog[k - 1].ev \in {"xml", "thumbnail"}
                /\ wlog[k - 1].set = wlog[k].set
    /\ \A p \in 1..Len(heap) :
          /\ Cardinality(EventsAt("callback", p)) <= icount(heap[p]) + 1
          /\ EventsAt("delete", p) # {} =>
                Cardinality(EventsAt("callback", p)) =
                   IF icount(heap[p]) = 0 THEN 0 ELSE icount(heap[p]) + 1

\* C11 witness: a set of a valid, an invalid and a valid frame is finished
\* and has had three callbacks.
C11_Witness ==
    \E p \in 1..Len(heap) :
       /\ heap[p].m_frames = <<[valid |-> TRUE], [valid |-> FALSE], [valid |-> TRUE]>>
       /\ EventsAt("delete", p) # {}
       /\ Cardinality(EventsAt("callback", p)) = 3

\* The number of entries of sequence q that satisfy Test.
Count(q, Test(_)) == Len(SelectSeq(q, Test))

IsFsChanged(r) == r.m_id = "PARAM_PRIV_FS_CHANGED"
IsFsNotification(c) == c = "notifyFileSystemChange"
IsCallback(x) == x.ev = "callback"

\* The callbacks dumpToFileSystem makes for the sets pushed so far.
RECURSIVE ExpectedCallbacks(_)
ExpectedCallbacks(ps) ==
    IF ps = <<>> THEN 0
    ELSE (IF icount(heap[Head(ps)]) = 0 THEN 0 ELSE icount(heap[Head(ps)]) + 1)
         + ExpectedCallbacks(Tail(ps))

\* C12: notifyFileSystemChange is called by the dispatch thread's switch and
\* by no step of the writer thread; a writer callback queues one
\* PARAM_PRIV_FS_CHANGED request and nothing else, and every such request
\* dispatched has made exactly one notifyFileSystemChange call; requests are
\* neither lost nor duplicated on their way; so the notifications never
\* exceed the callbacks of the pushed sets (3 for a set of two valid frames)
\* and, the threads being scheduled, three callbacks lead to three
\* notifications.
C12_Notifications ==
    /\ [][(jni' # jni) => (D_Task \/ D_Push)]_vars
    /\ [][Count(jni', IsFsNotification) # Count(jni, IsFsNotification) =>
             /\ D_Task
             /\ IsFsChanged(Head(taskQueue))
             /\ Count(jni', IsFsNotification) = Count(jni, IsFsNotification) + 1]_vars
    /\ [](Count(submitted, IsFsChanged) = Count(wlog, IsCallback))
    /\ [](Count(jni, IsFsNotification) = Count(applied, IsFsChanged))
    /\ [](applied \o taskQueue \o requestQueue.m_queue = submitted)
    /\ [](Count(wlog, IsCallback) <= ExpectedCallbacks(pushed))
    /\ (ExpectedCallbacks(pushed) >= 3) ~> (Count(jni, IsFsNotification) >= 3)

\* C12 witness: one set of two valid frames was pushed and finished, and the
\* Java side has been notified of three file system changes, the UI thread
\* having queued its requests in between.
C12_Witness ==
    /\ Len(pushed) = 1
    /\ Len(heap[pushed[1]].m_frames) = 2
    /\ \A k \in 1..2 : heap[pushed[1]].m_frames[k].valid
    /\ Count(jni, IsFsNotification) = 3
    /\ Len(applied) = 6
    /\ IsFsChanged(applied[4]) /\ IsFsChanged(applied[5]) /\ IsFsChanged(applied[6])

\* The positions in wlog of the worker's file writes.
FileWrites == {k \in 1..Len(wlog) : wlog[k].ev \in {"xml", "image", "thumbnail"}}

\* C13, as stated: the ImageSets newImageSet has returned carry strictly
\* increasing identifiers, and no two of them write a file of the same name.
\* (Refuted: SetFreeFileId can set the counter back, and newImageSet only
\* skips the identifiers whose descriptor is on storage already.)
C13_UniqueIds ==
    /\ \A p, q \in 1..Len(heap) : p < q => heap[p].m_fileId < heap[q].m_fileId
    /\ \A j, k \in FileWrites :
          wlog[j].set # wlog[k].set => wlog[j].name # wlog[k].name

\* C14: newImageSet returns a set whose identifier n is the least number from
\* the counter sFreeId on that has no descriptor file on storage, leaves the
\* counter at n + 1, and creates no file (the new set has no frame yet).
C14_NewImageSet ==
    [][Len(heap') = Len(heap) + 1 =>
          LET is == heap'[Len(heap')]
              n  == is.m_fileId IN
          /\ n >= sFreeId
          /\ XmlName(n) \notin fs
          /\ \A m \in sFreeId..(n - 1) : XmlName(m) \in fs
          /\ sFreeId' = n + 1
          /\ fs' = fs
          /\ wlog' = wlog
          /\ is.m_frames = <<>>]_vars

\* C14 witness: the first set skipped the descriptors 0..MaxFileId that an
\* earlier run left on storage.
C14_Witness ==
    /\ nalloc = 1
    /\ \A id \in 0..MaxFileId : XmlName(id) \in fs
    /\ heap[1].m_fileId = MaxFileId + 1
    /\ sFreeId = MaxFileId + 2

\* C15: the worker thread returns exactly when it has consumed the null
\* sentinel; only the destructor puts the sentinel on the queue, and
\* push( 0 ) leaves the queue as it is; when the worker has returned every
\* pushed ImageSet has been persisted and deleted, in push order; and a
\* destructor waiting in pthread_join eventually gets past it.
C15_Shutdown ==
    /\ [][wpc' = "exit" /\ wpc # "exit" => wpc = "got" /\ imageset = NULL]_vars
    /\ [][wpc = "got" /\ imageset = NULL /\ wpc' # wpc => wpc' = "exit"]_vars
    /\ [][wpc = "exit" => wpc' = "exit"]_vars
    /\ [][PushNull => m_queue' = m_queue]_vars
    /\ [](dtor = "none" =>
            /\ \A k \in 1..Len(m_queue.m_queue) : m_queue.m_queue[k] # NULL
            /\ wpc \in {"got", "dump_img"} => imageset # NULL
            /\ wpc # "exit")
    /\ [](wpc = "exit" =>
            /\ SetsOf("dump") = pushed
            /\ SetsOf("delete") = pushed
            /\ m_queue.m_queue = <<>>)
    /\ (dtor = "join") ~> (dtor = "done")

\* C15 witness: the destructor has returned after MaxSets pushed sets, the
\* last of them with a valid frame written to storage.
C15_Witness ==
    /\ dtor = "done"
    /\ Len(pushed) = MaxSets
    /\ \E k \in 1..Len(wlog) :
          wlog[k].ev = "thumbnail" /\ wlog[k].set = pushed[MaxSets]

\* The ImageSet has no valid frame: it is empty or all its frames are invalid.
NoValidFrame(is) == icount(is) = 0

\* C16: dumpToFileSystem on an ImageSet without a valid frame does nothing:
\* the worker's step on such a set changes neither the storage nor the
\* request queue, and no descriptor, image, thumbnail or callback of such a
\* set is ever logged; so as long as no captured set has a valid frame (a
\* take-picture with burst size 0 adds no frame at all) the storage stays
\* empty and no PARAM_PRIV_FS_CHANGED request or file system notification
\* exists.
C16_NoValidFrame ==
    /\ [][wpc = "got" /\ imageset # NULL /\ NoValidFrame(heap[imageset])
          /\ wpc' # wpc
          => /\ fs' = fs
             /\ requestQueue' = requestQueue
             /\ submitted' = submitted
             /\ wpc' = "loop"]_vars
    /\ [](\A k \in 1..Len(wlog) :
            wlog[k].ev \notin {"dump", "delete"}
                => ~NoValidFrame(heap[wlog[k].set]))
    /\ []((\A p \in 1..Len(heap) : NoValidFrame(heap[p]))
            => /\ fs = {}
               /\ Count(submitted, IsFsChanged) = 0
               /\ Count(jni, IsFsNotification) = 0)

\* C16 witness: a take-picture with burst size 0 has come to its end, its
\* empty set has been through dumpToFileSystem and deleted, and nothing was
\* written or notified.
C16_Witness ==
    /\ m_currentState.pendingImagesCount = 0
    /\ Len(heap) = 1 /\ heap[1].m_frames = <<>>
    /\ \E k \in 1..Len(wlog) : wlog[k] = [ev |-> "delete", set |-> 1]
    /\ \E k \in 1..Len(jni) : jni[k] = "notifyCaptureComplete"
    /\ fs = {}
    /\ Count(jni, IsFsNotification) = 0

\* C17: DownsampleChannel on a source plane whose pixels all equal V yields
\* a destination plane every pixel of which is within 1 of V.
C17_UniformPlane ==
    (thpc = "done" /\ \A k \in DOMAIN src : src[k] = src[0])
        => \A d \in DOMAIN dest : dest[d] - src[0] \in {-1, 0, 1}

\* C17 witness: a plane of the largest value has been downsampled to the
\* largest destination and came out one below.
C17_Witness ==
    /\ thpc = "done"
    /\ \A k \in DOMAIN src : src[k] = UCHAR_MAX
    /\ DOMAIN dest = 0..(MaxDstSide * MaxDstSide - 1)
    /\ \A d \in DOMAIN dest : dest[d] = UCHAR_MAX - 1

\* The auto modes: request id, flag and ShotParams field of each.
AutoModes ==
    {[id |-> "PARAM_PREVIEW_AUTO_EXPOSURE_ON", flag |-> "autoExposure",
      field |-> "exposure"],
     [id |-> "PARAM_PREVIEW_AUTO_GAIN_ON", flag |-> "autoGain", field |-> "gain"],
     [id |-> "PARAM_PREVIEW_AUTO_WB_ON", flag |-> "autoWB", field |-> "wb"],
     [id |-> "PARAM_PREVIEW_AUTO_FOCUS_ON", flag |-> "autoFocus",
      field |-> "focus"]}

\* The step dispatches the request task.
Dispatches(task) ==
    /\ taskQueue # <<>> /\ Head(taskQueue) = task
    /\ applied' = Append(applied, task)

AutoExposureOff == ParamSetRequest("PARAM_PREVIEW_AUTO_EXPOSURE_ON", 0)
AutoExposureOn  == ParamSetRequest("PARAM_PREVIEW_AUTO_EXPOSURE_ON", 1)

\* The request dispatched last was the auto-exposure-off command and no
\* preview cycle has run since.
JustSwitchedOff ==
    /\ applied # <<>> /\ applied[Len(applied)] = AutoExposureOff
    /\ ~cycled

\* C19: with auto-exposure on and evaluated exposure E (the value of
\* previousState the toggle reads), dispatching the auto-exposure-off command
\* sets the user exposure to E and leaves E; until the next request is
\* dispatched or a preview cycle runs both stay as they are; and dispatching
\* the auto-exposure-on command in that situation leaves the evaluated
\* exposure at E, with the mode on again.  A preview cycle leaves
\* previousState equal to the current state, so right after one E is also
\* the current state's evaluated exposure.
C19_RoundTrip ==
    /\ [][(Dispatches(AutoExposureOff) /\ m_currentState.preview.autoExposure)
          => /\ m_currentState'.preview.user.exposure
                   = previousState.preview.evaluated.exposure
             /\ previousState'.preview.evaluated.exposure
                   = previousState.preview.evaluated.exposure
             /\ ~m_currentState'.preview.autoExposure]_vars
    /\ [](JustSwitchedOff
            => /\ ~m_currentState.preview.autoExposure
               /\ m_currentState.preview.user.exposure
                     = previousState.preview.evaluated.exposure)
    /\ [][(JustSwitchedOff /\ applied' = applied /\ ~cycled')
          => /\ previousState' = previousState
             /\ m_currentState' = m_currentState]_vars
    /\ [][(JustSwitchedOff /\ Dispatches(AutoExposureOn))
          => /\ previousState'.preview.evaluated.exposure
                   = previousState.preview.evaluated.exposure
             /\ m_currentState'.preview.evaluated.exposure
                   = m_currentState.preview.evaluated.exposure
             /\ m_currentState'.preview.user.exposure
                   = previousState.preview.evaluated.exposure
             /\ m_currentState'.preview.autoExposure]_vars
    /\ [](cycled => previousState = m_currentState)

\* C19 witness: the estimator's exposure, which no user edit ever set, has
\* gone through off and on and is still the evaluated exposure.
C19_Witness ==
    /\ Len(applied) >= 3
    /\ applied[Len(applied) - 1] = AutoExposureOff
    /\ applied[Len(applied)] = AutoExposureOn
    /\ \E k \in 1..(Len(applied) - 2) : applied[k] = AutoExposureOn
    /\ ~cycled
    /\ m_currentState.preview.autoExposure
    /\ previousState.preview.evaluated.exposure \notin UserValues \cup {0}
    /\ m_currentState.preview.user.exposure
          = previousState.preview.evaluated.exposure

\* C20: every request queued on the request queue, by the UI thread or by
\* the writer's callback, is dispatched exactly once and in the order of the
\* produce calls: the dispatched requests are always a prefix of the queued
\* ones, the rest waits in the local batch and behind it in the request
\* queue in the same order, each dispatch takes the head of the batch, and
\* in the end everything queued has been dispatched.
C20_DispatchOrder ==
    /\ [](/\ Len(applied) <= Len(submitted)
          /\ applied = SubSeq(submitted, 1, Len(applied))
          /\ taskQueue \o requestQueue.m_queue
                = SubSeq(submitted, Len(applied) + 1, Len(submitted)))
    /\ [][applied' # applied
          => /\ taskQueue # <<>>
             /\ applied' = Append(applied, Head(taskQueue))
             /\ taskQueue' = Tail(taskQueue)
             /\ requestQueue' = requestQueue]_vars
    /\ [][taskQueue' # taskQueue /\ applied' = applied
          => /\ taskQueue = <<>>
             /\ taskQueue' = requestQueue.m_queue
             /\ requestQueue'.m_queue = <<>>]_vars
    /\ <>[](applied = submitted)

\* C20 witness: a request of the UI thread has been dispatched, a callback's
\* request is in the batch being dispatched, and another request was
\* produced after that batch was drained and waits for the next one.
C20_Witness ==
    /\ \E k \in 1..Len(applied) : ~IsFsChanged(applied[k])
    /\ \E k \in 1..Len(taskQueue) : IsFsChanged(taskQueue[k])
    /\ requestQueue.m_queue # <<>>

\* ---------------------------------------------------------------------------
\* The dispatch of the task at the head of the local queue.
Dispatching == dpc = "tasks" /\ taskQueue # <<>> /\ applied' # applied

\* C21: a command whose id the dispatch switch has no case for changes
\* neither the live capture state nor the snapshot, neither the viewer flag
\* nor the capture flag nor the writer; the task is taken off the local
\* queue and the loop goes on with the tasks behind it.
C21_Unsupported ==
    [][(Dispatching /\ Head(taskQueue).m_id \notin SupportedIds)
       => /\ m_currentState' = m_currentState
          /\ previousState' = previousState
          /\ isViewerActive' = isViewerActive
          /\ isCapturing' = isCapturing
          /\ writer' = writer
          /\ m_outputDirPrefix' = m_outputDirPrefix
          /\ taskQueue' = Tail(taskQueue)
          /\ dpc' = "tasks"]_vars

\* C21 witness: an unsupported command with a value other than 0 was
\* dispatched, and the output directory command behind it made the writer.
C21_Witness ==
    /\ Len(applied) = 2
    /\ applied[1] = ParamSetRequest("PARAM_CAPTURE_FPS", 1)
    /\ applied[2].m_id = "PARAM_OUTPUT_DIRECTORY"
    /\ writer # NULL
    /\ ~isViewerActive

\* A call of setParamFloatArray that the function is to drop.
Rejected(r) ==
    \/ r.param = "PARAM_SHOT" /\ r.size # 5
    \/ r.param \in {"PARAM_FOCUS_ON_TOUCH", "PARAM_WB_ON_TOUCH"} /\ r.size # 2
    \/ r.param \notin {"PARAM_SHOT", "PARAM_FOCUS_ON_TOUCH", "PARAM_WB_ON_TOUCH"}

\* C22: a call of setParamFloatArray with a PARAM_SHOT array whose length is
\* not 5, with a touch array whose length is not 2, or with an id the
\* function does not support, queues nothing.
C22_Dropped ==
    [][(/\ Len(urval') = Len(urval) + 1
        /\ urval'[Len(urval')].op = "setParamFloatArray"
        /\ Rejected(urval'[Len(urval')]))
       => requestQueue' = requestQueue /\ submitted' = submitted]_vars

\* C22 witness: a PARAM_SHOT call with two floats was dropped, and the call
\* with five floats that followed reached slot 1 of the live state.
C22_Witness ==
    /\ Len(urval) = 2
    /\ urval[1] = [op |-> "setParamFloatArray", param |-> "PARAM_SHOT", size |-> 2]
    /\ applied = <<ShotRequest(1, <<1, 1, 1, 1, 1>>)>>
    /\ m_currentState.pendingImages[1].exposure = 1
    /\ m_currentState.pendingImages[1].flashOn = 1

\* C30: once there is a writer no step replaces it or changes its
\* directory; the output directory command that finds no writer makes one
\* for the directory it carries.
C30_OneWriter ==
    /\ [][writer # NULL
          => writer' = writer /\ m_outputDirPrefix' = m_outputDirPrefix]_vars
    /\ [][(/\ Dispatching
           /\ Head(taskQueue).m_id = "PARAM_OUTPUT_DIRECTORY"
           /\ writer = NULL)
          => /\ writer' # NULL
             /\ m_outputDirPrefix' \in {Head(taskQueue).m_data,
                                        Append(Head(taskQueue).m_data, "/")}]_vars

\* C30 witness: two output directory commands were dispatched and the writer
\* has the directory of the first.
C30_Witness ==
    /\ applied = <<ParamSetRequest("PARAM_OUTPUT_DIRECTORY", <<"a">>),
                   ParamSetRequest("PARAM_OUTPUT_DIRECTORY", <<"b", "/">>)>>
    /\ writer # NULL
    /\ m_outputDirPrefix = <<"a", "/">>

IsCaptureStart(c) == c = "notifyCaptureStart"
IsCaptureComplete(c) == c = "notifyCaptureComplete"

\* The captures begun and not yet completed.
CapturesOpen == Count(jni, IsCaptureStart) - Count(jni, IsCaptureComplete)

\* The dispatch of a take-picture command with a value other than 0.
DispatchingTake ==
    /\ Dispatching
    /\ Head(taskQueue).m_id = "PARAM_TAKE_PICTURE"
    /\ Head(taskQueue).m_data # 0

\* C27: a take-picture command with a value other than 0 starts a capture
\* only if the writer exists, and is without effect otherwise; the start
\* notification comes before anything is captured and the complete
\* notification with the push; the two notifications alternate, beginning
\* with a start, and isCapturing is true exactly from one to the other.
C27_TakePicture ==
    /\ [](CapturesOpen \in {0, 1} /\ (isCapturing <=> CapturesOpen = 1))
    /\ [][DispatchingTake
          => IF writer = NULL
             THEN /\ jni' = jni /\ isCapturing' = isCapturing
                  /\ m_sensor' = m_sensor /\ heap' = heap /\ m_queue' = m_queue
                  /\ m_currentState' = m_currentState
                  /\ previousState' = previousState
                  /\ dpc' = "tasks"
             ELSE /\ jni' = Append(jni, "notifyCaptureStart")
                  /\ isCapturing'
                  /\ heap' = heap /\ m_queue' = m_queue]_vars
    /\ [][(heap' # heap \/ m_queue' # m_queue) => isCapturing]_vars
    /\ [][jni' # jni /\ IsCaptureComplete(jni'[Len(jni')])
          => Len(pushed') = Len(pushed) + 1 /\ ~isCapturing']_vars

\* C27 witness: a take-picture command came before the writer and did
\* nothing; the one after the output directory command ran to completion.
C27_Witness ==
    /\ applied = <<ParamSetRequest("PARAM_TAKE_PICTURE", 1),
                   ParamSetRequest("PARAM_OUTPUT_DIRECTORY", <<"d">>),
                   ParamSetRequest("PARAM_TAKE_PICTURE", 1)>>
    /\ jni = <<"notifyCaptureStart", "notifyCaptureComplete">>
    /\ Len(pushed) = 1
    /\ ~isCapturing

\* The capture requests Camera::capture is to queue for state cs: one per
\* slot below pendingImagesCount, in slot order, with the slot's exposure,
\* gain and white balance, the flash exactly where the slot asks for it.
IsBurstOf(q, cs) ==
    /\ Len(q) = (IF cs.pendingImagesCount > 0 THEN cs.pendingImagesCount ELSE 0)
    /\ \A k \in DOMAIN q :
          /\ q[k].slot = k - 1
          /\ q[k].exposure = cs.pendingImages[k - 1].exposure
          /\ q[k].gain = cs.pendingImages[k - 1].gain
          /\ q[k].whiteBalance = cs.pendingImages[k - 1].wb
          /\ q[k].flashAction <=> cs.pendingImages[k - 1].flashOn # 0

\* C28: an executed take-picture stops the stream; the frames still pending
\* are taken from the sensor and dropped; then, with nothing pending, one
\* new ImageSet is made and the burst is queued; every frame the sensor
\* hands out afterwards is added to that set in order; the set is pushed
\* once, with the frames of all the shots of the burst.
C28_Capture ==
    /\ [][(DispatchingTake /\ writer # NULL) => ~m_sensor'.streaming]_vars
    /\ [][(dpc = "discard" /\ dpc' = "discard"
           /\ (m_sensor' # m_sensor \/ heap' # heap))
          => /\ m_sensor.queue # <<>>
             /\ m_sensor'.queue = Tail(m_sensor.queue)
             /\ heap' = heap]_vars
    /\ [][(dpc = "discard" /\ dpc' = "capture")
          => /\ m_sensor.queue = <<>>
             /\ Len(heap') = Len(heap) + 1
             /\ heap'[cur'].m_frames = <<>>
             /\ IsBurstOf(m_sensor'.queue, m_currentState)]_vars
    /\ [][(dpc = "capture" /\ dpc' = "capture"
           /\ (m_sensor' # m_sensor \/ heap' # heap))
          => /\ m_sensor.queue # <<>>
             /\ m_sensor'.queue = Tail(m_sensor.queue)
             /\ Len(heap'[cur].m_frames) = Len(heap[cur].m_frames) + 1
             /\ heap'[cur].m_frames[Len(heap'[cur].m_frames)].shot
                   = Head(m_sensor.queue)]_vars
    /\ [][(dpc = "capture" /\ dpc' # "capture")
          => /\ pushed' = Append(pushed, cur)
             /\ \A k \in DOMAIN pushed : pushed[k] # cur
             /\ IsBurstOf([k \in DOMAIN heap[cur].m_frames |->
                              heap[cur].m_frames[k].shot], m_currentState)]_vars
    /\ [](dpc \in {"discard", "capture"} => ~m_sensor.streaming)

\* C28 witness: the capture was taken while the viewer streamed, a frame of
\* the stream was pending and was dropped, and the set pushed holds the
\* frame of slot 0, shot with the flash, and then that of slot 1, without.
C28_Witness ==
    /\ Len(pushed) = 1
    /\ dpc = "tasks"
    /\ cycled = FALSE
    /\ previousState.preview.histogramData # 0
    /\ m_sensor = [streaming |-> FALSE, queue |-> <<>>]
    /\ Len(heap[pushed[1]].m_frames) = 2
    /\ heap[pushed[1]].m_frames[1].shot =
          [slot |-> 0, exposure |-> 1, gain |-> 1, whiteBalance |-> 1,
           flashAction |-> TRUE]
    /\ heap[pushed[1]].m_frames[2].shot =
          [slot |-> 1, exposure |-> 2, gain |-> 2, whiteBalance |-> 2,
           flashAction |-> FALSE]

\* C29: when the tasks are done and the viewer is inactive the dispatch
\* thread goes back to draining the request queue: it streams nothing,
\* leaves the preview buffer and the snapshot alone; the preview cycle runs
\* only with the viewer active, and only it streams, publishes and copies.
C29_ViewerInactive ==
    /\ [][(dpc = "tasks" /\ taskQueue = <<>> /\ ~isViewerActive /\ dpc' # dpc)
          => /\ dpc' = "drain"
             /\ m_sensor' = m_sensor
             /\ previewBuffer' = previewBuffer
             /\ previousState' = previousState]_vars
    /\ [](dpc = "preview" => isViewerActive)
    /\ [][(\/ previewBuffer' # previewBuffer
           \/ previousState' # previousState
           \/ m_sensor'.streaming /\ ~m_sensor.streaming)
          => dpc = "preview"]_vars

\* C29 witness: the viewer was switched on and off again, a preview frame
\* having been published in between; then a capture ran with the viewer
\* inactive and the thread is back to draining.
C29_Witness ==
    /\ ~isViewerActive
    /\ dpc = "drain"
    /\ Len(applied) = 4
    /\ applied[4] = ParamSetRequest("PARAM_TAKE_PICTURE", 1)
    /\ jni = <<"notifyCaptureStart", "notifyCaptureComplete">>
    /\ previewBuffer[1].m_updateFrontBuffer
    /\ ~m_sensor.streaming

\* C23: a reader on another thread never sees previousState partially
\* updated: what getParamFloat returns is the value its parameter had in
\* one of the states the snapshot was in during the call.
C23_Consistent ==
    \A k \in DOMAIN urval :
        urval[k].op = "getParamFloat" => urval[k].val \in urval[k].seen

\* C24: after its initialization the snapshot is modified only by the copy
\* the dispatch thread makes at the end of a preview cycle while it holds
\* previousStateLock; the processing of commands never writes to it.
C24_OnlyBulkCopy ==
    [][previousState' # previousState => previousStateLock = "dispatch"]_vars

\* C25: every lock a call of the UI thread takes is released when the call
\* returns, so that no call leaves the dispatch thread blocked.
C25_Released ==
    upc = "idle" => previousStateLock # "ui" /\ renderingThreadLock # "ui"

\* The dispatch thread is inside m_sensor->getFrame(): that of the preview
\* cycle, or one of Camera::capture with a shot pending.
InGetFrame ==
    \/ dpc = "getFrame"
    \/ dpc \in {"discard", "capture"} /\ shotsPending > 0

\* C26: whenever the dispatch thread is inside a getFrame that may block,
\* in the preview cycle or in Camera::capture, it holds neither
\* previousStateLock nor renderingThreadLock.
C26_NoLockInGetFrame ==
    InGetFrame => previousStateLock # "dispatch" /\ renderingThreadLock # "dispatch"

\* C26 witness: after a preview cycle in which the thread took and released
\* both locks it waits for a frame of the burst, and the UI thread has
\* renderingThreadLock meanwhile.
C26_Witness ==
    /\ dpc = "capture"
    /\ shotsPending = 1
    /\ previousState.preview.histogramData # 0
    /\ renderingThreadLock = "ui"
    /\ previousStateLock = "free"

\* C34: each role keeps its buffer until its own next swap: swapBackBuffer
\* leaves the front pointer alone, swapFrontBuffer leaves the back pointer
\* alone, and the buffer the consumer got from its last swapFrontBuffer is
\* never the back buffer the producer fills, in either triple buffer.
C34_OwnBuffer ==
    /\ [](held # "none" =>
             /\ held # tsbuf.m_backBuffer
             /\ held # tbuf.m_backBuffer
             /\ held = tsbuf.m_frontBuffer
             /\ held = tbuf.m_frontBuffer)
    /\ [][SwapBack =>
             /\ tsbuf'.m_frontBuffer = tsbuf.m_frontBuffer
             /\ tbuf'.m_frontBuffer = tbuf.m_frontBuffer]_vars
    /\ [][SwapFront =>
             /\ tsbuf'.m_backBuffer = tsbuf.m_backBuffer
             /\ tbuf'.m_backBuffer = tbuf.m_backBuffer]_vars

\* C34 witness: the consumer holds a filled buffer from a swapFrontBuffer,
\* the producer has since handed over another fill and has filled its back
\* buffer once more.
C34_Witness ==
    /\ held # "none"
    /\ shown >= 1
    /\ sinceFront >= 1
    /\ ppc = "swap"
    /\ content[tsbuf.m_backBuffer] = nfills

\* C35: what the consumer sees never goes backwards: a swapFrontBuffer with
\* no hand-over since the previous one returns the same fill again, any other
\* returns a strictly newer fill; and while the update-pending flag is set
\* the spare buffer holds the fill handed over by the latest swapBackBuffer,
\* which no queue of older fills precedes.
C35_Monotonic ==
    /\ [](tsbuf.m_updateFrontBuffer =>
             /\ content[tsbuf.m_spareBuffer] = published
             /\ \A b \in Buffers \ {tsbuf.m_backBuffer} :
                   content[b] <= published)
    /\ [](tbuf.m_updateFrontBuffer =>
             content[tbuf.m_spareBuffer] = published)
    /\ [][SwapFront =>
             /\ sinceFront = 0 => shown' = shown
             /\ sinceFront > 0 => shown' > shown
             /\ content[tb_rval'.buf] = shown']_vars

\* C35 witness: a swapFrontBuffer returned the same fill as the call before
\* it, after an earlier call had skipped a fill that was overwritten.
C35_Witness ==
    /\ ts_rval.op = "swapFrontBuffer"
    /\ lastN = 0
    /\ shown = 2
    /\ published = 2
    /\ nfills >= 3

\* C36: consumeAll is unsafe against a concurrent consume.  A consumeAll
\* that runs while a consume is between its semaphore wait and its critical
\* section leaves that consume in front of an empty queue, and a consume
\* that enters its critical section on an empty queue runs front() and
\* pop() on it; a consumeAll that runs while a consume waits on a posted
\* semaphore takes the wake-up away.  Without such an overlap neither
\* happens: front() and pop() run on an empty queue only after a consumeAll
\* has overlapped a consume.
C36_ConcurrentConsume ==
    /\ [][(ConsumeAllConcurrent /\ cpc = "cs") =>
             (wq'.m_queue = <<>> /\ cpc' = "cs")]_vars
    /\ [][(cpc = "cs" /\ cpc' # "cs" /\ wq.m_queue = <<>>) => ub']_vars
    /\ [][(ConsumeAllConcurrent /\ cpc = "sem_wait" /\ wq.m_queue # <<>>) =>
             (~sem_available(wq') /\ cpc' = "sem_wait")]_vars
    /\ []((ub \/ (cpc = "cs" /\ wq.m_queue = <<>>)) => overlap > 0)
    /\ [][(ub' /\ ~ub) => (cpc = "cs" /\ cpc' # "cs" /\ wq.m_queue = <<>>)]_vars

\* C36 witness: a consume that had passed its semaphore wait when consumeAll
\* emptied the queue has gone through front() and pop() on the empty queue.
C36_Witness ==
    /\ ub
    /\ overlap = 1
    /\ cpc = "undefined"
    /\ Last(delivered).op = "consume"
    /\ delivered[Len(delivered) - 1].op = "consumeAll"
    /\ Len(produced) = 1

\* C39: DownsampleChannel never reads outside the source plane: for source
\* extents of at least the window's side and destination extents of at
\* least 1, every index the 5x5 window reads is at least 0 and below
\* srcWidth * srcHeight, and the call writes the dstWidth * dstHeight
\* destination bytes, no more and no fewer.  CreateThumbnail's chroma calls
\* are calls with half the extents.
C39_InPlane ==
    /\ ~oob
    /\ thpc = "done" =>
          /\ \A k \in SourceReads(dstWidth, dstHeight, srcWidth, srcHeight) :
                0 <= k /\ k < srcWidth * srcHeight
          /\ DOMAIN dest = 0..(dstWidth * dstHeight - 1)

\* C39 witness: a call that read the last byte of a source plane wider than
\* the window, for a destination of more than one pixel each way.
C39_Witness ==
    /\ thpc = "done"
    /\ srcWidth > THUMBNAIL_BLUR_RADIUS
    /\ srcHeight > THUMBNAIL_BLUR_RADIUS
    /\ dstWidth > 1
    /\ dstHeight > 1
    /\ (srcWidth * srcHeight - 1)
          \in SourceReads(dstWidth, dstHeight, srcWidth, srcHeight)

\* C37: dispatching an auto-enable command that asks for the state the flag
\* is already in (off while off, on while on) changes neither the user value
\* nor the evaluated value of its parameter, in the current state and in
\* previousState alike; a repeated auto-off command leaves a user value
\* edited since the mode went off as the user set it.
C37_NoTransition ==
    [][\A a \in AutoModes : \A d \in {0, 1} :
          (Dispatches(ParamSetRequest(a.id, d))
              /\ m_currentState.preview[a.flag] = (d # 0))
          => /\ m_currentState'.preview.user[a.field]
                   = m_currentState.preview.user[a.field]
             /\ m_currentState'.preview.evaluated[a.field]
                   = m_currentState.preview.evaluated[a.field]
             /\ previousState'.preview.evaluated[a.field]
                   = previousState.preview.evaluated[a.field]]_vars

\* ---- touch events

\* The step in which the switch dispatches a touch request.
TouchDispatched ==
    Len(applied') = Len(applied) + 1 /\ IsTouch(applied'[Len(applied')])

\* Dispatching a touch request records the point and the pending action and
\* nothing else: state, shot and sensor stay as they are and no touch action
\* is applied.
RecordsOnly ==
    TouchDispatched =>
        LET task == applied'[Len(applied')] IN
            /\ touchX' = task.m_data[1] * camera.m_imageWidth
            /\ touchY' = task.m_data[2] * camera.m_imageHeight
            /\ touchAction' \in {"TOUCH_ACTION_FOCUS", "TOUCH_ACTION_WHITE_BALANCE"}
            /\ UNCHANGED <<m_currentState, previousState, shot, m_sensor, touched>>

\* A touch action is applied only in the step in which getFrame returns, one
\* at a time: the pending one, at the recorded point, for the touch request
\* dispatched last, which belongs to the iteration under way.
AfterFrame ==
    touched' # touched =>
        /\ dpc = "getFrame" /\ dpc' = "publish"
        /\ Len(touched') = Len(touched) + 1
        /\ SubSeq(touched', 1, Len(touched)) = touched
        /\ LET t == touched'[Len(touched')] IN
              /\ t.cmd = LastTouch
              /\ t.cmd > batch
              /\ t.action = touchAction
              /\ t.x = touchX /\ t.y = touchY

\* No touch request is acted upon twice.
AtMostOnce ==
    \A i, j \in DOMAIN touched : i < j => touched[i].cmd < touched[j].cmd

\* The touch request at place k of applied has been acted upon.
Acted(k) == \E i \in DOMAIN touched : touched[i].cmd = k

\* The step that ends an iteration of for ( ;; ).
IterationEnds == dpc # "drain" /\ dpc' = "drain"

\* The touch requests dispatched in the iteration under way.
TouchesOfIteration ==
    {k \in (batch + 1)..Len(applied) : IsTouch(applied[k])}

\* C31 as stated: a touch command only records a pixel coordinate and a
\* pending action during command processing; the action is applied after
\* the preview frame of that iteration has been returned, at most once, and
\* every touch command processed in an iteration has been acted upon when
\* that iteration ends: none is dropped and none is carried over.
C31_NotDropped ==
    /\ [][RecordsOnly]_vars
    /\ [][AfterFrame]_vars
    /\ []AtMostOnce
    /\ [][IterationEnds => \A k \in TouchesOfIteration : Acted(k)]_vars

\* C31 as amended: a touch command only records a pixel coordinate and a
\* pending action during command processing; the action is applied after
\* the preview frame of that iteration has been returned, at most once and
\* never in a later iteration.  Of the touch commands processed in an
\* iteration exactly the last one is acted upon, and only if the iteration
\* ends its command processing with the viewer active; the others are
\* dropped.
C31_Deferred ==
    /\ [][RecordsOnly]_vars
    /\ [][AfterFrame]_vars
    /\ []AtMostOnce
    /\ [][IterationEnds =>
             \A k \in TouchesOfIteration :
                Acted(k) <=> (isViewerActive /\ k = LastTouch)]_vars

\* C31 witness: an iteration has ended in which two touch commands were
\* processed with the viewer active; the second one was applied at its
\* point and the first one was dropped.
C31_Witness ==
    /\ dpc = "drain"
    /\ Len(applied) = 3
    /\ IsTouch(applied[2]) /\ IsTouch(applied[3])
    /\ batch = 0
    /\ isViewerActive
    /\ Len(touched) = 1
    /\ touched[1].cmd = 3
    /\ touched[1].x = applied[3].m_data[1] * camera.m_imageWidth
    /\ ~Acted(2)

\* C32: when a deferred touch-to-white-balance action is applied, the colour
\* temperature the local estimator returns is adopted: after the switch the
\* shot's white balance, or the evaluated white balance, equals it.
C32_AdoptsEstimate ==
    [][(touched' # touched
        /\ touched'[Len(touched')].action = "TOUCH_ACTION_WHITE_BALANCE") =>
          LET t == touched'[Len(touched')] IN
              t.whiteBalance = t.temp \/ t.evaluated = t.temp]_vars

\* ---- the camera and the preview buffer

\* The mode a PARAM_SELECT_CAMERA request asks for ("none" for a value that
\* names no camera).
RequestedMode(data) ==
    CASE data = SELECT_FRONT_CAMERA -> "Front"
      [] data = SELECT_BACK_CAMERA -> "Back"
      [] data = SELECT_STEREO_CAMERA -> "Stereo"
      [] OTHER -> "none"

\* The step in which the case PARAM_SELECT_CAMERA does its work.
SelectStep == dpc = "select" /\ dpc' = "tasks"

\* C33: the preview buffer is created, reallocated, swapped and filled, and
\* the current camera is replaced, only by a thread that holds
\* renderingThreadLock, so the renderer is never inside lockViewerTexture
\* while the dispatch thread publishes a frame or replaces the camera.
C33_UnderLock ==
    /\ [][previewBuffer' # previewBuffer =>
             \/ upc = "lockViewerTexture" /\ upc' = "idle"
                   /\ renderingThreadLock = "ui"
             \/ dpc = "publishing" /\ dpc' # "publishing"
                   /\ renderingThreadLock = "dispatch"]_vars
    /\ [][(m_currentMode' # m_currentMode \/ SelectStep) =>
             SelectStep /\ renderingThreadLock = "dispatch"]_vars
    /\ [](upc = "lockViewerTexture" => renderingThreadLock = "ui")
    /\ [](dpc \in {"publishing", "select"} => renderingThreadLock = "dispatch")

\* C33 witness: the renderer has made the preview buffer inside
\* lockViewerTexture and given the texture back, the dispatch thread has
\* replaced the camera, has published one frame and now holds the lock to
\* publish the next, which the renderer has to wait for.
C33_Witness ==
    /\ dpc = "publishing"
    /\ renderingThreadLock = "dispatch"
    /\ previewBuffer # <<>>
    /\ previewBuffer[1].m_updateFrontBuffer
    /\ m_currentMode # "Back"
    /\ upc = "idle"
    /\ previewBufferTexId < 0
    /\ Len(urval) = 2

\* C40: a camera-selection command preserves the configured capture
\* parameters: after the switch m_currentState is what it was before, and
\* selecting the mode already active changes neither the camera nor the
\* state.
C40_StatePreserved ==
    [][SelectStep =>
          /\ m_currentState' = m_currentState
          /\ (RequestedMode(Head(taskQueue).m_data) = m_currentMode =>
                 m_currentMode' = m_currentMode /\ m_sensor' = m_sensor)]_vars

\* ---- the pending shots

\* C38: the pending shots stay within their capacity of
\* FCAM_MAX_PICTURES_PER_SHOT: the burst count is in 0..16, the slot a
\* PARAM_SHOT request writes and the slot getParamFloatArray reads are in
\* 0..15, and neither the dispatch loop nor Camera::capture goes outside
\* pendingImages.
C38_WithinCapacity ==
    /\ m_currentState.pendingImagesCount \in 0..FCAM_MAX_PICTURES_PER_SHOT
    /\ \A k \in DOMAIN applied :
          applied[k].m_id = "PARAM_SHOT" => applied[k].m_pictureId \in PendingSlots
    /\ (upc = "getParamFloatArray" /\ uarg.param = "PARAM_SHOT") =>
          uarg.pictureId \in PendingSlots
    /\ dpc # "undefined"


====
